---- MODULE Spec2Model ----
(***************************************************************************)
(* Sebas Audio Cutter Pro: the sample-buffer pipelines of the audio        *)
(* utilities (fixed-duration slicer, silence segmenter, edge trimmer).     *)
(*                                                                         *)
(* Two generations of the utilities live in the repository.  The current   *)
(* one (the module that also exports trimAudio and masterAudio) keeps the  *)
(* source's names here: removeSilence, sliceAudioBuffer, trimAudio.  The   *)
(* older src/utils/audioUtils.ts defines removeSilence and                 *)
(* sliceAudioBuffer again with different bodies; those are modelled under  *)
(* the names utils_removeSilence and utils_sliceAudioBuffer.               *)
(*                                                                         *)
(* Representation.  A Float32Array is a sequence of runs [n, v]: n equal   *)
(* consecutive samples of value v.  Samples are fixed-point integers in    *)
(* units of 0.0001 (10000 is the amplitude 1.0); a product with a fade     *)
(* factor j/F is rounded by integer division, as Float32 rounds it.        *)
(* Durations are integers in milliseconds.  Array indices are 0-based as   *)
(* in the source.                                                          *)
(***************************************************************************)
EXTENDS Integers, Sequences, FiniteSets, TLC

VARIABLES
    pc,                 \* "ready": inputs drawn, no call made; "done": the call returned
    fn,                 \* the pipeline the inputs were drawn for, then the function called
    buffer,             \* the input AudioBuffer (id 0), as its samples currently are
    analysisData,       \* channel 0 of the band-pass render removeSilence analyses
    threshold,          \* threshold argument (fixed point)
    minSilenceDuration, \* minSilenceDuration argument (ms)
    segmentDuration,    \* segmentDuration argument (units of 0.1 ms)
    offset,             \* sliceAudioBuffer: the loop variable (i / offset)
    regionsToKeep,      \* removeSilence: the regions pushed, in push order
    result,             \* the buffers the call returned, in order
    allocs,             \* number of audioContext.createBuffer calls made
    trimmed,            \* trimAudio: the start/end it computed, per call
    options,            \* masterAudio: the MasteringOptions value passed
    renders,            \* masterAudio: per call, the graph built and the buffer rendered
    audioContext,       \* sharedAudioContext and the state of the realtime context
    lastGet,            \* what the latest getAudioContext() call found, did and returned
    currentTime,        \* context.currentTime, in ticks of 10 ms
    players,            \* the buffer sources createPreviewPlayer made, in creation order
    raised,             \* an exception left a stop() handle
    studio,             \* MasteringStudio: its state, its refs and its pending async handler
    app                 \* App: the active tab, the cutter's state and its pending async steps

pipelineVars == <<pc, fn, buffer, analysisData, threshold, minSilenceDuration,
                  segmentDuration, offset, regionsToKeep, result, allocs, trimmed>>

masteringVars == <<options, renders>>

previewVars == <<audioContext, lastGet, currentTime, players, raised, studio>>

vars == <<pipelineVars, masteringVars, previewVars, app>>

\* reverbLevel?: number, left out of the options object
undefined == -1

\* the mastering tab has not been used
MasteringIdle ==
    /\ options = [preset |-> "music", enhanceLevel |-> 0, denoiseLevel |-> 0,
                  sibilanceLevel |-> 0, roomTreatmentLevel |-> 0, reverbLevel |-> undefined]
    /\ renders = << >>

\* let sharedAudioContext: AudioContext | null = null
NoContext == [shared |-> 0, created |-> 0, state |-> "none", resuming |-> FALSE]

\* getAudioContext has not been called
NoGet == [created |-> FALSE, found |-> "none", resumed |-> FALSE, returned |-> 0]

\* no export has run
NoExport == [ok |-> FALSE, error |-> "none", type |-> "", size |-> 0]

\* MasteringStudio is not mounted
NoStudio ==
    [mounted |-> FALSE, file |-> FALSE, audioBuffer |-> FALSE, isProcessing |-> FALSE,
     isPlaying |-> FALSE, outputFormat |-> "mp3", downloadUrl |-> FALSE,
     playerRef |-> 0, startTimeRef |-> 0, startOffsetRef |-> 0,
     pending |-> "none", exportFormat |-> "mp3", lastExport |-> NoExport, lamejs |-> FALSE,
     orphan |-> "none"]

\* App as it is first rendered: the mastering tab is shown, the cutter has no file;
\* bufferList is the length of the list the pending run holds, run is what its
\* handleFileSelect captured from the render it was called in
NoApp ==
    [activeTab |-> "master", file |-> FALSE, isProcessing |-> FALSE, error |-> FALSE,
     segments |-> 0, downloadLink |-> FALSE, mode |-> "cut", outputFormat |-> "mp3",
     silenceOutputType |-> "merged", pending |-> "none", bufferList |-> 0,
     run |-> [outputFormat |-> "mp3", silenceOutputType |-> "merged"]]

\* the realtime preview has not been used
PreviewIdle ==
    /\ audioContext = NoContext
    /\ lastGet = NoGet
    /\ currentTime = 0
    /\ players = << >>
    /\ raised = FALSE
    /\ studio = NoStudio

-----------------------------------------------------------------------------
(* Bounds of the model *)

\* windows (50 ms) of analysis data drawn for removeSilence
MaxWindows == 11

\* alternating stretches of voice and silence in the analysis data drawn
MaxSegments == 3

\* sample rates drawn; sampleRate * 0.25 and sampleRate * 0.2 are integral for
\* each of them, as they are for 16000, 44100 and 48000
SampleRates == {8000}

Min(a, b) == IF a < b THEN a ELSE b
Max(a, b) == IF a > b THEN a ELSE b
Abs(x) == IF x < 0 THEN -x ELSE x

-----------------------------------------------------------------------------
(* Float32Array as a sequence of pieces *)

\* n consecutive samples of value v
Run(n, v) == [n |-> n, v |-> v, s |-> << >>]

\* the samples s, one by one
Dense(s) == [n |-> Len(s), v |-> 0, s |-> s]

\* sample t (0-based) of a piece
PieceAt(p, t) == IF p.s = << >> THEN p.v ELSE p.s[t + 1]

\* samples lo..hi-1 of a piece
PieceSub(p, lo, hi) ==
    IF p.s = << >> THEN Run(hi - lo, p.v) ELSE Dense(SubSeq(p.s, lo + 1, hi))

\* sum of Math.abs(s[j]) for lo <= j <= hi (1-based), by halving
RECURSIVE SeqSumAbs(_, _, _)
SeqSumAbs(s, lo, hi) ==
    IF lo > hi THEN 0
    ELSE IF lo = hi THEN Abs(s[lo])
    ELSE SeqSumAbs(s, lo, (lo + hi) \div 2) + SeqSumAbs(s, (lo + hi) \div 2 + 1, hi)

\* sum of s[j] * s[j] for lo <= j <= hi (1-based), by halving
RECURSIVE SeqSumSq(_, _, _)
SeqSumSq(s, lo, hi) ==
    IF lo > hi THEN 0
    ELSE IF lo = hi THEN s[lo] * s[lo]
    ELSE SeqSumSq(s, lo, (lo + hi) \div 2) + SeqSumSq(s, (lo + hi) \div 2 + 1, hi)

\* array.length
RECURSIVE LenFrom(_, _)
LenFrom(d, r) == IF r > Len(d) THEN 0 ELSE d[r].n + LenFrom(d, r + 1)
Length(d) == LenFrom(d, 1)

\* array[k], 0-based
RECURSIVE AtFrom(_, _, _)
AtFrom(d, r, k) == IF k < d[r].n THEN PieceAt(d[r], k) ELSE AtFrom(d, r + 1, k - d[r].n)
At(d, k) == AtFrom(d, 1, k)

\* array.subarray(a, b) / array.slice(a, b) read as a value: samples a..b-1
RECURSIVE SubFrom(_, _, _, _)
SubFrom(d, r, a, b) ==
    IF r > Len(d) \/ b <= 0 THEN << >>
    ELSE LET lo == Max(a, 0)
             hi == Min(b, d[r].n)
             rest == SubFrom(d, r + 1, a - d[r].n, b - d[r].n)
         IN  IF hi > lo THEN <<PieceSub(d[r], lo, hi)>> \o rest ELSE rest
subarray(d, a, b) == SubFrom(d, 1, a, b)

\* sum of Math.abs(array[j]) for a <= j < b
RECURSIVE SumAbsFrom(_, _, _, _)
SumAbsFrom(d, r, a, b) ==
    IF r > Len(d) \/ b <= 0 THEN 0
    ELSE LET lo == Max(a, 0)
             hi == Min(b, d[r].n)
             rest == SumAbsFrom(d, r + 1, a - d[r].n, b - d[r].n)
         IN  IF hi > lo
             THEN (IF d[r].s = << >> THEN (hi - lo) * Abs(d[r].v)
                   ELSE SeqSumAbs(d[r].s, lo + 1, hi)) + rest
             ELSE rest
SumAbs(d, a, b) == SumAbsFrom(d, 1, a, b)

\* sum of array[j] * array[j] for a <= j < b
RECURSIVE SumSqFrom(_, _, _, _)
SumSqFrom(d, r, a, b) ==
    IF r > Len(d) \/ b <= 0 THEN 0
    ELSE LET lo == Max(a, 0)
             hi == Min(b, d[r].n)
             rest == SumSqFrom(d, r + 1, a - d[r].n, b - d[r].n)
         IN  IF hi > lo
             THEN (IF d[r].s = << >> THEN (hi - lo) * d[r].v * d[r].v
                   ELSE SeqSumSq(d[r].s, lo + 1, hi)) + rest
             ELSE rest
SumSq(d, a, b) == SumSqFrom(d, 1, a, b)

\* the samples of an array one by one
RECURSIVE ExpandFrom(_, _)
ExpandFrom(d, r) ==
    IF r > Len(d) THEN << >>
    ELSE (IF d[r].s = << >> THEN [k \in 1..d[r].n |-> d[r].v] ELSE d[r].s) \o ExpandFrom(d, r + 1)
Expand(d) == ExpandFrom(d, 1)

\* dst.set(src): src written over the first samples of dst
set(dst, src) == src \o subarray(dst, Length(src), Length(dst))

\* audioContext.createBuffer(channels, len, rate): a fresh zero-filled buffer
createBuffer(id, channels, len, rate) ==
    [id |-> id, numberOfChannels |-> channels, sampleRate |-> rate, length |-> len,
     data |-> [c \in 1..channels |-> IF len > 0 THEN <<Run(len, 0)>> ELSE << >>]]

-----------------------------------------------------------------------------
(* removeSilence, current utilities *)

\* Math.floor(sampleRate * 0.05)
windowSize(sampleRate) == (sampleRate * 5) \div 100

\* one iteration of the window loop at offset i; st is the loop's local state
removeSilence_window(data, numSamples, sampleRate, thr, minSil, st, i) ==
    LET end == Min(i + windowSize(sampleRate), numSamples)
        sum == SumAbs(data, i, end)
        loud == sum > thr * (end - i)                  \* avg > threshold
    IN  IF loud
        THEN [st EXCEPT !.isSpeaking = TRUE,
                        !.speechStart = IF st.isSpeaking THEN @ ELSE i,
                        !.silenceDuration = 0]
        ELSE IF st.isSpeaking
             THEN LET sil == st.silenceDuration + (end - i)
                  IN  IF sil * 1000 > minSil * sampleRate   \* silenceDuration > minSilenceDuration
                      THEN [st EXCEPT !.silenceDuration = sil,
                                      !.isSpeaking = FALSE,
                                      !.regions = Append(@, [start |-> st.speechStart, end |-> i])]
                      ELSE [st EXCEPT !.silenceDuration = sil]
             ELSE st

RECURSIVE removeSilence_loop(_, _, _, _, _, _, _)
removeSilence_loop(data, numSamples, sampleRate, thr, minSil, st, i) ==
    IF i < numSamples
    THEN removeSilence_loop(data, numSamples, sampleRate, thr, minSil,
            removeSilence_window(data, numSamples, sampleRate, thr, minSil, st, i),
            i + windowSize(sampleRate))
    ELSE st

\* regionsToKeep when the analysis is over
removeSilence_regions(data, numSamples, sampleRate, thr, minSil) ==
    LET st == removeSilence_loop(data, numSamples, sampleRate, thr, minSil,
                  [isSpeaking |-> FALSE, speechStart |-> 0, silenceDuration |-> 0,
                   regions |-> << >>], 0)
    IN  IF st.isSpeaking
        THEN Append(st.regions, [start |-> st.speechStart, end |-> numSamples])
        ELSE st.regions

\* the post-filter: len < sampleRate * 0.1 is skipped
removeSilence_keeps(region, sampleRate) ==
    ~ ((region.end - region.start) * 10 < sampleRate)

\* newBuf filled from the band-pass render that was analysed
removeSilence_extract_filtered(buf, region, id) ==
    LET len == region.end - region.start
        newBuf == createBuffer(id, buf.numberOfChannels, len, buf.sampleRate)
    IN  [newBuf EXCEPT !.data = [c \in 1..buf.numberOfChannels |->
            set(newBuf.data[c], subarray(analysisData, region.start, region.end))]]

\* newBuf for one region: every channel copied from the original buffer
removeSilence_extract(buf, region, id) ==
    LET len == region.end - region.start
        newBuf == createBuffer(id, buf.numberOfChannels, len, buf.sampleRate)
    IN  [newBuf EXCEPT !.data = [c \in 1..buf.numberOfChannels |->
            set(newBuf.data[c], subarray(buf.data[c], region.start, region.end))]]

RECURSIVE removeSilence_buffers(_, _, _, _)
removeSilence_buffers(buf, regions, r, out) ==
    IF r > Len(regions) THEN out
    ELSE IF removeSilence_keeps(regions[r], buf.sampleRate)
         THEN removeSilence_buffers(buf, regions, r + 1,
                  Append(out, removeSilence_extract(buf, regions[r], Len(out) + 1)))
         ELSE removeSilence_buffers(buf, regions, r + 1, out)

-----------------------------------------------------------------------------
(* removeSilence, src/utils/audioUtils.ts *)

\* one iteration of the window loop at offset i
utils_removeSilence_window(data, numSamples, sampleRate, thr, minSil, st, i) ==
    LET end == Min(i + windowSize(sampleRate), numSamples)
        sum == SumSq(data, i, end)
        loud == thr < 0 \/ sum > thr * thr * (end - i)     \* Math.sqrt(sum / (end - i)) > threshold
    IN  IF loud
        THEN [st EXCEPT !.isSpeaking = TRUE,
                        !.startParams = IF st.isSpeaking THEN @
                                        ELSE Max(0, i - (sampleRate * 25) \div 100),
                        !.silenceStart = 0]
        ELSE IF st.isSpeaking
             THEN IF st.silenceStart = 0
                  THEN [st EXCEPT !.silenceStart = i]
                  ELSE IF (i - st.silenceStart) * 1000 > minSil * sampleRate
                       THEN [st EXCEPT !.isSpeaking = FALSE,
                                !.regions = Append(@,
                                    [start |-> st.startParams,
                                     end |-> Min(numSamples,
                                                 st.silenceStart + (sampleRate * 20) \div 100)])]
                       ELSE st
             ELSE st

RECURSIVE utils_removeSilence_loop(_, _, _, _, _, _, _)
utils_removeSilence_loop(data, numSamples, sampleRate, thr, minSil, st, i) ==
    IF i < numSamples
    THEN utils_removeSilence_loop(data, numSamples, sampleRate, thr, minSil,
            utils_removeSilence_window(data, numSamples, sampleRate, thr, minSil, st, i),
            i + windowSize(sampleRate))
    ELSE st

\* regionsToKeep when the analysis is over
utils_removeSilence_regions(data, numSamples, sampleRate, thr, minSil) ==
    LET st == utils_removeSilence_loop(data, numSamples, sampleRate, thr, minSil,
                  [isSpeaking |-> FALSE, startParams |-> 0, silenceStart |-> 0,
                   regions |-> << >>], 0)
    IN  IF st.isSpeaking \/ st.silenceStart > 0
        THEN Append(st.regions, [start |-> st.startParams, end |-> numSamples])
        ELSE st.regions

\* length < 1000 is skipped
MinClipLength == 1000

utils_removeSilence_keeps(region) == ~ (region.end - region.start < MinClipLength)

\* newBuffer for one region: every channel copied from the original buffer
utils_removeSilence_extract(buf, region, id) ==
    LET length == region.end - region.start
        newBuffer == createBuffer(id, buf.numberOfChannels, length, buf.sampleRate)
    IN  [newBuffer EXCEPT !.data = [c \in 1..buf.numberOfChannels |->
            set(newBuffer.data[c], subarray(buf.data[c], region.start, region.end))]]

RECURSIVE utils_removeSilence_buffers(_, _, _, _)
utils_removeSilence_buffers(buf, regions, r, out) ==
    IF r > Len(regions) THEN out
    ELSE IF utils_removeSilence_keeps(regions[r])
         THEN utils_removeSilence_buffers(buf, regions, r + 1,
                  Append(out, utils_removeSilence_extract(buf, regions[r], Len(out) + 1)))
         ELSE utils_removeSilence_buffers(buf, regions, r + 1, out)

\* the value returned: the whole input when no region was found
utils_removeSilence_result(buf, regions) ==
    IF Len(regions) = 0 THEN <<buf>>
    ELSE utils_removeSilence_buffers(buf, regions, 1, << >>)

-----------------------------------------------------------------------------
(* Fades: newData[i] *= (i / fadeSamples) *)

\* x * (j / F) in fixed point
Scale(x, j, F) == IF x < 0 THEN - (((- x) * j) \div F) ELSE (x * j) \div F

\* for (i = 0; i < F && i < len; i++) data[i] *= (i / F)
fadeIn(d, F) ==
    LET len == Length(d)
        n == Min(F, len)
        head == Expand(subarray(d, 0, n))
    IN  (IF n > 0 THEN <<Dense([p \in 1..n |-> Scale(head[p], p - 1, F)])>> ELSE << >>)
        \o subarray(d, n, len)

\* for (i = 0; i < F && i < len; i++) data[len - 1 - i] *= (i / F)
fadeOut(d, F) ==
    LET len == Length(d)
        n == Min(F, len)
        tail == Expand(subarray(d, len - n, len))
    IN  subarray(d, 0, len - n)
        \o (IF n > 0 THEN <<Dense([p \in 1..n |-> Scale(tail[p], n - p, F)])>> ELSE << >>)

-----------------------------------------------------------------------------
(* trimAudio *)

\* sum of Math.abs over all channels for a <= j < b
RECURSIVE SumAbsChannels(_, _, _, _)
SumAbsChannels(buf, c, a, b) ==
    IF c > buf.numberOfChannels THEN 0
    ELSE SumAbs(buf.data[c], a, b) + SumAbsChannels(buf, c + 1, a, b)

\* avg > threshold for the window a <= j < b, avg = sum / count over all channels
trimAudio_loud(buf, thr, a, b) ==
    SumAbsChannels(buf, 1, a, b) > thr * ((b - a) * buf.numberOfChannels)

\* the forward scan without the backtrack of one window
RECURSIVE trimAudio_start_noBacktrack(_, _, _)
trimAudio_start_noBacktrack(buf, thr, i) ==
    IF i < buf.length
    THEN IF trimAudio_loud(buf, thr, i, Min(i + windowSize(buf.sampleRate), buf.length))
         THEN i
         ELSE trimAudio_start_noBacktrack(buf, thr, i + windowSize(buf.sampleRate))
    ELSE 0

\* 1. Find Start: the forward scan from window offset i
RECURSIVE trimAudio_start(_, _, _)
trimAudio_start(buf, thr, i) ==
    IF i < buf.length
    THEN IF trimAudio_loud(buf, thr, i, Min(i + windowSize(buf.sampleRate), buf.length))
         THEN Max(0, i - windowSize(buf.sampleRate))
         ELSE trimAudio_start(buf, thr, i + windowSize(buf.sampleRate))
    ELSE 0

\* the backward scan with the tail margin not clamped to the buffer length
RECURSIVE trimAudio_end_unclamped(_, _, _)
trimAudio_end_unclamped(buf, thr, i) ==
    IF i > 0
    THEN IF trimAudio_loud(buf, thr, Max(0, i - windowSize(buf.sampleRate)), i)
         THEN i + windowSize(buf.sampleRate)
         ELSE trimAudio_end_unclamped(buf, thr, i - windowSize(buf.sampleRate))
    ELSE buf.length

\* 2. Find End: the backward scan from window end i
RECURSIVE trimAudio_end(_, _, _)
trimAudio_end(buf, thr, i) ==
    IF i > 0
    THEN IF trimAudio_loud(buf, thr, Max(0, i - windowSize(buf.sampleRate)), i)
         THEN Min(buf.length, i + windowSize(buf.sampleRate))
         ELSE trimAudio_end(buf, thr, i - windowSize(buf.sampleRate))
    ELSE buf.length

\* the fade length of the slicer (10 ms) used in place of fadeDuration = 0.02
fadeSamples_10ms(sampleRate) == sampleRate \div 100

\* Math.floor(sampleRate * fadeDuration), fadeDuration = 0.02
fadeSamples(sampleRate) == (sampleRate * 2) \div 100

\* the new buffer with the fade-in loop alone
trimAudio_newBuffer_noFadeOut(buf, start, end, id) ==
    LET newBuffer == createBuffer(id, buf.numberOfChannels, end - start, buf.sampleRate)
    IN  [newBuffer EXCEPT !.data = [c \in 1..buf.numberOfChannels |->
            fadeIn(set(newBuffer.data[c], subarray(buf.data[c], start, end)),
                   fadeSamples(buf.sampleRate))]]

\* 3. the new buffer: [start, end) of every channel, faded in and out
trimAudio_newBuffer(buf, start, end, id) ==
    LET newBuffer == createBuffer(id, buf.numberOfChannels, end - start, buf.sampleRate)
    IN  [newBuffer EXCEPT !.data = [c \in 1..buf.numberOfChannels |->
            fadeOut(fadeIn(set(newBuffer.data[c], subarray(buf.data[c], start, end)),
                           fadeSamples(buf.sampleRate)),
                    fadeSamples(buf.sampleRate))]]

\* the value returned when the start >= end test is left out
trimAudio_result_unguarded(buf, start, end, id) == trimAudio_newBuffer(buf, start, end, id)

\* the value returned: the input itself when start >= end
trimAudio_result(buf, start, end, id) ==
    IF start >= end THEN buf ELSE trimAudio_newBuffer(buf, start, end, id)

-----------------------------------------------------------------------------
(* sliceAudioBuffer, current utilities *)

\* Math.floor(segmentDuration * sampleRate), segmentDuration in units of 0.1 ms
segmentLen(d, sampleRate) == (d * sampleRate) \div 10000

\* Math.floor(sampleRate * 0.01)
fadeLen(sampleRate) == sampleRate \div 100

\* chunkLen < sampleRate * 0.1: the chunk is skipped
sliceAudioBuffer_skips(chunkLen, sampleRate) == chunkLen * 10 < sampleRate

\* chunkBuffer filled from the first samples of the source whatever the offset
sliceAudioBuffer_chunk_unshifted(buf, i, end, id) ==
    LET chunkBuffer == createBuffer(id, buf.numberOfChannels, end - i, buf.sampleRate)
    IN  [chunkBuffer EXCEPT !.data = [c \in 1..buf.numberOfChannels |->
            fadeOut(fadeIn(set(chunkBuffer.data[c], subarray(buf.data[c], 0, end - i)),
                           fadeLen(buf.sampleRate)),
                    fadeLen(buf.sampleRate))]]

\* chunkBuffer: [i, end) of every channel copied, then faded in and out
sliceAudioBuffer_chunk(buf, i, end, id) ==
    LET chunkBuffer == createBuffer(id, buf.numberOfChannels, end - i, buf.sampleRate)
    IN  [chunkBuffer EXCEPT !.data = [c \in 1..buf.numberOfChannels |->
            fadeOut(fadeIn(set(chunkBuffer.data[c], subarray(buf.data[c], i, end)),
                           fadeLen(buf.sampleRate)),
                    fadeLen(buf.sampleRate))]]

-----------------------------------------------------------------------------
(* sliceAudioBuffer, src/utils/audioUtils.ts *)

\* newBuffer: currentSegmentLength samples of every channel copied from offset on
utils_sliceAudioBuffer_segment(buf, off, currentSegmentLength, id) ==
    LET newBuffer == createBuffer(id, buf.numberOfChannels, currentSegmentLength, buf.sampleRate)
    IN  [newBuffer EXCEPT !.data = [c \in 1..buf.numberOfChannels |->
            set(newBuffer.data[c], subarray(buf.data[c], off, off + currentSegmentLength))]]

-----------------------------------------------------------------------------
(* Inputs of the silence segmenter *)

\* threshold = 0.02
DefaultSilenceThreshold == 200

\* the amplitude of a window of the analysis render that carries voice
VoiceLevel == 1000

MinSilenceDurations == {100, 400}

\* samples of one block of constant value in a drawn input buffer
BlockLen == 200

\* number of stretches of equal level in a sequence of window levels
Segments(levels) ==
    1 + Cardinality({k \in 1..(Len(levels) - 1) : levels[k] # levels[k + 1]})

\* len samples per channel in blocks of blockLen samples, no two blocks alike
ToneData(channels, len, blockLen) ==
    [c \in 1..channels |->
        [b \in 1..((len + blockLen - 1) \div blockLen) |->
            Run(Min(blockLen, len - (b - 1) * blockLen), (IF c = 1 THEN 1 ELSE -1) * (50 * b + c))]]

SilentData(channels, len) ==
    [c \in 1..channels |-> IF len > 0 THEN <<Run(len, 0)>> ELSE << >>]

\* the analysis render: one level per 50 ms window, the last window cut to lastLen
AnalysisOf(levels, w, lastLen) ==
    [k \in 1..Len(levels) |-> Run(IF k = Len(levels) THEN lastLen ELSE w, levels[k])]

NoTrim == << >>

InitSilence ==
    /\ pc = "ready"
    /\ fn = "silence"
    /\ \E rate \in SampleRates, channels \in {1, 2}, n \in 1..MaxWindows :
       \E levels \in {l \in [1..n -> {0, VoiceLevel}] : Segments(l) <= MaxSegments} :
       \E lastLen \in {windowSize(rate), windowSize(rate) \div 2} :
       \E silent \in IF \A k \in 1..n : levels[k] = 0 THEN {TRUE, FALSE} ELSE {FALSE} :
          LET len == (n - 1) * windowSize(rate) + lastLen
          IN  /\ analysisData = AnalysisOf(levels, windowSize(rate), lastLen)
              /\ buffer = [id |-> 0, numberOfChannels |-> channels, sampleRate |-> rate,
                           length |-> len,
                           data |-> IF silent THEN SilentData(channels, len)
                                    ELSE ToneData(channels, len, BlockLen)]
    /\ threshold = DefaultSilenceThreshold
    /\ minSilenceDuration \in MinSilenceDurations
    /\ segmentDuration = 0
    /\ offset = 0
    /\ regionsToKeep = << >>
    /\ result = << >>
    /\ allocs = 0
    /\ trimmed = NoTrim
    /\ MasteringIdle
    /\ PreviewIdle
    /\ app = NoApp

removeSilence ==
    /\ pc = "ready"
    /\ fn = "silence"
    /\ LET regions == removeSilence_regions(analysisData, buffer.length, buffer.sampleRate,
                                            threshold, minSilenceDuration)
           out == removeSilence_buffers(buffer, regions, 1, << >>)
       IN  /\ regionsToKeep' = regions
           /\ result' = out
           /\ allocs' = Len(out)
    /\ pc' = "done"
    /\ fn' = "removeSilence"
    /\ UNCHANGED <<buffer, analysisData, threshold, minSilenceDuration, segmentDuration,
                   offset, trimmed>>
    /\ UNCHANGED <<masteringVars, previewVars, app>>

utils_removeSilence ==
    /\ pc = "ready"
    /\ fn = "silence"
    /\ fn = "silence"
    /\ LET regions == utils_removeSilence_regions(analysisData, buffer.length, buffer.sampleRate,
                                                  threshold, minSilenceDuration)
           out == utils_removeSilence_result(buffer, regions)
       IN  /\ regionsToKeep' = regions
           /\ result' = out
           /\ allocs' = IF Len(regions) = 0 THEN 0 ELSE Len(out)
    /\ pc' = "done"
    /\ fn' = "utils_removeSilence"
    /\ UNCHANGED <<buffer, analysisData, threshold, minSilenceDuration, segmentDuration,
                   offset, trimmed>>
    /\ UNCHANGED <<masteringVars, previewVars, app>>

NextSilence == removeSilence \/ utils_removeSilence

SpecSilence == InitSilence /\ [][NextSilence]_vars

-----------------------------------------------------------------------------
(* Inputs of the edge trimmer *)

\* threshold = 0.015
DefaultTrimThreshold == 150

\* blocks (25 ms, half a window) of input drawn for trimAudio
MaxBlocks == 7

\* amplitude of a block that lifts a window above the threshold only when the
\* whole window carries it
MidLevel == 220

\* amplitude of a block that lifts its window above the threshold by itself
LoudLevel == 4000

\* samples of one drawn block
TrimBlockLen(rate) == windowSize(rate) \div 2

\* channel 1 from the block levels; channel 2 its inverse, or silent
TrimData(levels, blockLen, second) ==
    LET ch1 == [b \in 1..Len(levels) |-> Run(blockLen, levels[b])]
    IN  IF second = "none" THEN <<ch1>>
        ELSE IF second = "inverted"
             THEN <<ch1, [b \in 1..Len(levels) |-> Run(blockLen, - levels[b])]>>
             ELSE <<ch1, <<Run(blockLen * Len(levels), 0)>> >>

\* a recording of 16 blocks: 100 ms of silence, two loud blocks 75 ms apart, then
\* 175 ms of silence
ExampleTrimLevels ==
    [b \in 1..16 |-> IF b \in {5, 9} THEN LoudLevel ELSE 0]

\* the block levels drawn for trimAudio
TrimLevels ==
    UNION {{l \in [1..n -> {0, MidLevel, LoudLevel}] : Segments(l) <= MaxSegments} :
              n \in 1..MaxBlocks}
        \cup {ExampleTrimLevels}

InitTrim ==
    /\ pc = "ready"
    /\ fn = "trim"
    /\ \E rate \in SampleRates, levels \in TrimLevels :
       \E second \in {"none", "inverted", "silent"} :
          buffer = [id |-> 0, numberOfChannels |-> IF second = "none" THEN 1 ELSE 2,
                    sampleRate |-> rate, length |-> Len(levels) * TrimBlockLen(rate),
                    data |-> TrimData(levels, TrimBlockLen(rate), second)]
    /\ analysisData = << >>
    /\ threshold = DefaultTrimThreshold
    /\ minSilenceDuration = 0
    /\ segmentDuration = 0
    /\ offset = 0
    /\ regionsToKeep = << >>
    /\ result = << >>
    /\ allocs = 0
    /\ trimmed = NoTrim
    /\ MasteringIdle
    /\ PreviewIdle
    /\ app = NoApp

\* trimAudio with newData a view of originalData: the fades land in the input
trimAudio_inPlace ==
    /\ pc = "ready"
    /\ fn = "trim"
    /\ LET start == trimAudio_start(buffer, threshold, 0)
           end == trimAudio_end(buffer, threshold, buffer.length)
           out == trimAudio_result(buffer, start, end, 1)
       IN  /\ trimmed' = <<[start |-> start, end |-> end]>>
           /\ result' = <<out>>
           /\ allocs' = IF start >= end THEN 0 ELSE 1
           /\ buffer' = IF start >= end THEN buffer
                        ELSE [buffer EXCEPT !.data = [c \in 1..buffer.numberOfChannels |->
                                 subarray(buffer.data[c], 0, start) \o out.data[c]
                                 \o subarray(buffer.data[c], end, buffer.length)]]
    /\ pc' = "done"
    /\ fn' = "trimAudio"
    /\ UNCHANGED <<analysisData, threshold, minSilenceDuration, segmentDuration,
                   offset, regionsToKeep>>
    /\ UNCHANGED <<masteringVars, previewVars, app>>

\* trimAudio(buffer, threshold)
trimAudio ==
    /\ pc = "ready"
    /\ fn = "trim"
    /\ LET start == trimAudio_start(buffer, threshold, 0)
           end == trimAudio_end(buffer, threshold, buffer.length)
       IN  /\ trimmed' = <<[start |-> start, end |-> end]>>
           /\ result' = <<trimAudio_result(buffer, start, end, 1)>>
           /\ allocs' = IF start >= end THEN 0 ELSE 1
    /\ pc' = "done"
    /\ fn' = "trimAudio"
    /\ UNCHANGED <<buffer, analysisData, threshold, minSilenceDuration, segmentDuration,
                   offset, regionsToKeep>>
    /\ UNCHANGED <<masteringVars, previewVars, app>>

\* trimAudio(r, threshold) on the buffer r a first trimAudio returned
trimAudioAgain ==
    /\ pc = "done"
    /\ fn = "trimAudio"
    /\ LET r == result[1]
           start == trimAudio_start(r, threshold, 0)
           end == trimAudio_end(r, threshold, r.length)
       IN  /\ trimmed' = Append(trimmed, [start |-> start, end |-> end])
           /\ result' = Append(result, trimAudio_result(r, start, end, allocs + 1))
           /\ allocs' = IF start >= end THEN allocs ELSE allocs + 1
    /\ pc' = "again"
    /\ UNCHANGED <<fn, buffer, analysisData, threshold, minSilenceDuration, segmentDuration,
                   offset, regionsToKeep>>
    /\ UNCHANGED <<masteringVars, previewVars, app>>

NextTrim == trimAudio \/ trimAudioAgain

SpecTrim == InitTrim /\ [][NextTrim]_vars

-----------------------------------------------------------------------------
(* Inputs of the fixed-duration segmenter *)

\* blocks of BlockLen samples in the input drawn for sliceAudioBuffer
MaxSliceBlocks == 15

\* samples after the last whole block of a drawn input
TailLen == 50

\* segmentDuration values drawn (units of 0.1 ms): 0.1 ms, 50 ms, 100 ms, 250 ms
SegmentDurations == {1, 500, 1000, 2500}

\* the 2-channel, 44100 Hz, 3-second buffer of the concrete scenario
ExampleBuffer ==
    [id |-> 0, numberOfChannels |-> 2, sampleRate |-> 44100, length |-> 3 * 44100,
     data |-> ToneData(2, 3 * 44100, 30000)]

InitSlice ==
    /\ pc = "ready"
    /\ fn = "slice"
    /\ \/ \E rate \in SampleRates, channels \in {1, 2}, n \in 1..MaxSliceBlocks, tail \in {0, TailLen} :
            /\ buffer = [id |-> 0, numberOfChannels |-> channels, sampleRate |-> rate,
                         length |-> n * BlockLen + tail,
                         data |-> ToneData(channels, n * BlockLen + tail, BlockLen)]
            /\ segmentDuration \in SegmentDurations
       \/ /\ buffer = ExampleBuffer
          /\ segmentDuration = 10000
    /\ analysisData = << >>
    /\ threshold = 0
    /\ minSilenceDuration = 0
    /\ offset = 0
    /\ regionsToKeep = << >>
    /\ result = << >>
    /\ allocs = 0
    /\ trimmed = NoTrim
    /\ MasteringIdle
    /\ PreviewIdle
    /\ app = NoApp

\* sliceAudioBuffer(buffer, segmentDuration) is entered: chunks = [], i = 0
sliceAudioBuffer ==
    /\ pc = "ready"
    /\ fn = "slice"
    /\ pc' = "loop"
    /\ fn' = "sliceAudioBuffer"
    /\ UNCHANGED <<buffer, analysisData, threshold, minSilenceDuration, segmentDuration,
                   offset, regionsToKeep, result, allocs, trimmed>>
    /\ UNCHANGED <<masteringVars, previewVars, app>>

\* one iteration of for (i = 0; i < len; i += segmentLen)
sliceAudioBuffer_iterate ==
    /\ pc = "loop"
    /\ fn = "sliceAudioBuffer"
    /\ offset < buffer.length
    /\ LET end == Min(offset + segmentLen(segmentDuration, buffer.sampleRate), buffer.length)
       IN  IF sliceAudioBuffer_skips(end - offset, buffer.sampleRate)
           THEN UNCHANGED <<result, allocs>>
           ELSE /\ result' = Append(result, sliceAudioBuffer_chunk(buffer, offset, end, allocs + 1))
                /\ allocs' = allocs + 1
    /\ offset' = offset + segmentLen(segmentDuration, buffer.sampleRate)
    /\ UNCHANGED <<pc, fn, buffer, analysisData, threshold, minSilenceDuration, segmentDuration,
                   regionsToKeep, trimmed>>
    /\ UNCHANGED <<masteringVars, previewVars, app>>

\* the loop is left and chunks is returned
sliceAudioBuffer_return ==
    /\ pc = "loop"
    /\ fn = "sliceAudioBuffer"
    /\ ~ (offset < buffer.length)
    /\ pc' = "done"
    /\ UNCHANGED <<fn, buffer, analysisData, threshold, minSilenceDuration, segmentDuration,
                   offset, regionsToKeep, result, allocs, trimmed>>
    /\ UNCHANGED <<masteringVars, previewVars, app>>

\* the older sliceAudioBuffer(buffer, segmentDuration) is entered: segments = [], offset = 0
utils_sliceAudioBuffer ==
    /\ pc = "ready"
    /\ fn = "slice"
    /\ pc' = "loop"
    /\ fn' = "utils_sliceAudioBuffer"
    /\ UNCHANGED <<buffer, analysisData, threshold, minSilenceDuration, segmentDuration,
                   offset, regionsToKeep, result, allocs, trimmed>>
    /\ UNCHANGED <<masteringVars, previewVars, app>>

\* one iteration of for (offset = 0; offset < length; offset += segmentLength);
\* createBuffer refuses a length of 0 (NotSupportedError), which ends the call
utils_sliceAudioBuffer_iterate ==
    /\ pc = "loop"
    /\ fn = "utils_sliceAudioBuffer"
    /\ offset < buffer.length
    /\ LET segmentLength == segmentLen(segmentDuration, buffer.sampleRate)
           currentSegmentLength == Min(segmentLength, buffer.length - offset)
       IN  IF currentSegmentLength = 0
           THEN /\ pc' = "threw"
                /\ UNCHANGED <<offset, result, allocs>>
           ELSE /\ result' = Append(result,
                        utils_sliceAudioBuffer_segment(buffer, offset, currentSegmentLength, allocs + 1))
                /\ allocs' = allocs + 1
                /\ offset' = offset + segmentLength
                /\ pc' = pc
    /\ UNCHANGED <<fn, buffer, analysisData, threshold, minSilenceDuration, segmentDuration,
                   regionsToKeep, trimmed>>
    /\ UNCHANGED <<masteringVars, previewVars, app>>

\* the loop is left and segments is returned
utils_sliceAudioBuffer_return ==
    /\ pc = "loop"
    /\ fn = "utils_sliceAudioBuffer"
    /\ ~ (offset < buffer.length)
    /\ pc' = "done"
    /\ UNCHANGED <<fn, buffer, analysisData, threshold, minSilenceDuration, segmentDuration,
                   offset, regionsToKeep, result, allocs, trimmed>>
    /\ UNCHANGED <<masteringVars, previewVars, app>>

NextSlice ==
    \/ sliceAudioBuffer
    \/ sliceAudioBuffer_iterate
    \/ sliceAudioBuffer_return
    \/ utils_sliceAudioBuffer
    \/ utils_sliceAudioBuffer_iterate
    \/ utils_sliceAudioBuffer_return

SpecSlice == InitSlice /\ [][NextSlice]_vars

-----------------------------------------------------------------------------
(* The three pipelines together *)

Init == InitSilence \/ InitTrim \/ InitSlice

Next == NextSilence \/ NextTrim \/ NextSlice

Spec == Init /\ [][Next]_vars

-----------------------------------------------------------------------------
(* The mastering chain.  Levels are integers in hundredths (30 is the      *)
(* level 0.3); every node parameter is a fixed-point integer in units of   *)
(* 0.0001, like the samples (frequency 400 Hz is 4000000, gain 1 is        *)
(* 10000).  A graph is the nodes in creation order and the connect() calls *)
(* in call order; "input" is the gain node the builder returns and         *)
(* "destination" the node it was given.                                    *)

\* a slider level (hundredths) as a fixed-point number
Level(l) == l * 100

\* Math.pow(denoiseLevel, 0.7), for the levels the model draws
Pow07(l) ==
    CASE l = 0   -> 0
      [] l = 30  -> 4305
      [] l = 31  -> 4405
      [] l = 100 -> 10000

\* ConvolverNode.buffer before it is assigned
NullBuffer == [id |-> 0 - 1, numberOfChannels |-> 0, sampleRate |-> 0, length |-> 0, data |-> << >>]

\* context.createBiquadFilter() with its type, frequency, Q and gain as assigned
BiquadFilter(name, type, frequency, Q, gain) ==
    [name |-> name, kind |-> "BiquadFilter", type |-> type,
     p |-> <<frequency, Q, gain>>, buffer |-> NullBuffer]

\* context.createGain() with its gain as assigned
GainNode(name, gain) ==
    [name |-> name, kind |-> "Gain", type |-> "", p |-> <<gain>>, buffer |-> NullBuffer]

\* context.createDynamicsCompressor(): threshold, knee, ratio, attack, release
DynamicsCompressor(name, thresholdDb, knee, ratio, attack, release) ==
    [name |-> name, kind |-> "DynamicsCompressor", type |-> "",
     p |-> <<thresholdDb, knee, ratio, attack, release>>, buffer |-> NullBuffer]

\* context.createConvolver() with its buffer as assigned
Convolver(name, impulse) ==
    [name |-> name, kind |-> "Convolver", type |-> "", p |-> << >>, buffer |-> impulse]

\* current.connect(node); current = node
series(g, node) ==
    [nodes |-> Append(g.nodes, node),
     edges |-> Append(g.edges, <<g.current, node.name>>),
     current |-> node.name]

\* a.connect(b) that leaves current alone
connect(g, a, b) == [g EXCEPT !.edges = Append(@, <<a, b>>)]

\* Math.pow(1 - i / length, decay) for decay = 3
envelope(i, length) ==
    LET x == ((length - i) * 10000) \div length
    IN  (((x * x) \div 10000) * x) \div 10000

\* createReverbImpulse(context, 1.5, 3.0): random[i+1] is the value Math.random()
\* returned in iteration i; the samples after Len(random) are not represented
createReverbImpulse(rate, random) ==
    LET length == (rate * 15) \div 10
        head == [k \in 1..Len(random) |->
                    ((random[k] * 2 - 10000) * envelope(k - 1, length)) \div 10000]
    IN  [id |-> 1, numberOfChannels |-> 2, sampleRate |-> rate, length |-> length,
         data |-> << <<Dense(head)>>, <<Dense(head)>> >>]

\* 1. Enhanced Denoise Logic
createMasteringChain_denoise(g, denoiseLevel) ==
    IF denoiseLevel > 0
    THEN LET g1 == series(g, BiquadFilter("highPass", "highpass",
                                 700000 + denoiseLevel * 13000, 6000, 0))
             g2 == series(g1, BiquadFilter("highShelfHiss", "highshelf",
                                 50000000, 10000, 0 - ((Pow07(denoiseLevel) * 18))))
         IN  IF denoiseLevel > 30
             THEN series(g2, BiquadFilter("lowPass", "lowpass",
                                 Max(40000000, 180000000 - (denoiseLevel - 30) * 2000000),
                                 5000, 0))
             ELSE g2
    ELSE g

\* 2. Room Treatment
createMasteringChain_room(g, roomTreatmentLevel) ==
    IF roomTreatmentLevel > 0
    THEN LET g1 == series(g, BiquadFilter("deBoxFilter", "peaking", 4000000, 12000,
                                 0 - (Level(roomTreatmentLevel) * 12)))
         IN  series(g1, BiquadFilter("mudFilter", "peaking", 2000000, 10000,
                                 0 - (Level(roomTreatmentLevel) * 6)))
    ELSE g

\* the de-esser created at every level, as a no-op when the level is 0
createMasteringChain_deEsser_always(g, sibilanceLevel) ==
    LET g1 == series(g, BiquadFilter("deEsserTarget", "peaking", 75000000, 25000,
                             0 - (Level(sibilanceLevel) * 24)))
    IN  IF sibilanceLevel > 30
        THEN series(g1, BiquadFilter("deEsserSoften", "highshelf", 100000000, 10000,
                             0 - (Level(sibilanceLevel) * 6)))
        ELSE g1

\* 3. De-Esser
createMasteringChain_deEsser(g, sibilanceLevel) ==
    IF sibilanceLevel > 0
    THEN LET g1 == series(g, BiquadFilter("deEsserTarget", "peaking", 75000000, 25000,
                                 0 - (Level(sibilanceLevel) * 24)))
         IN  IF sibilanceLevel > 30
             THEN series(g1, BiquadFilter("deEsserSoften", "highshelf", 100000000, 10000,
                                 0 - (Level(sibilanceLevel) * 6)))
             ELSE g1
    ELSE g

\* 4. Equalization: boost = enhanceLevel * 6, then the preset's three filters
createMasteringChain_tone(g, preset, enhanceLevel) ==
    LET boost == Level(enhanceLevel) * 6
        lowShelf ==
            CASE preset = "music"     -> BiquadFilter("lowShelf", "lowshelf", 600000, 10000, (boost * 6) \div 10)
              [] preset = "podcast"   -> BiquadFilter("lowShelf", "lowshelf", 1000000, 10000, (boost * 5) \div 10)
              [] preset = "narration" -> BiquadFilter("lowShelf", "lowshelf", 1200000, 10000, (boost * 16) \div 10)
        highShelf ==
            CASE preset = "music"     -> BiquadFilter("highShelf", "highshelf", 120000000, 10000, (boost * 6) \div 10)
              [] preset = "podcast"   -> BiquadFilter("highShelf", "highshelf", 80000000, 10000, (boost * 5) \div 10)
              [] preset = "narration" -> BiquadFilter("highShelf", "highshelf", 80000000, 10000, (boost * 1) \div 10)
        midPeaking ==
            CASE preset = "music"     -> BiquadFilter("midPeaking", "peaking", 3000000, 8000, 0 - ((boost * 2) \div 10))
              [] preset = "podcast"   -> BiquadFilter("midPeaking", "peaking", 25000000, 10000, (boost * 5) \div 10)
              [] preset = "narration" -> BiquadFilter("midPeaking", "peaking", 20000000, 10000, (boost * 6) \div 10)
    IN  series(series(series(g, lowShelf), highShelf), midPeaking)

\* 5. Dynamics
createMasteringChain_compressor(g, preset, enhanceLevel) ==
    IF preset = "music"
    THEN series(g, DynamicsCompressor("compressor", 0 - 140000, 150000,
                                      15000 + (Level(enhanceLevel) * 15) \div 10, 500, 2000))
    ELSE series(g, DynamicsCompressor("compressor", 0 - 180000, 100000,
                                      40000 + Level(enhanceLevel) * 12, 20, 1500))

\* 6. Makeup gain: connected after current, current stays the compressor
createMasteringChain_makeup(g, enhanceLevel) ==
    LET makeupGain == GainNode("makeupGain", 10000 + (Level(enhanceLevel) * 6) \div 10)
    IN  [nodes |-> Append(g.nodes, makeupGain),
         edges |-> Append(g.edges, <<g.current, "makeupGain">>),
         current |-> g.current]

\* 7. Reverb: makeupGain -> convolver -> reverbGain -> destination
createMasteringChain_reverb(g, destination, reverbLevel, rate, random) ==
    IF reverbLevel > 0
    THEN LET convolver == Convolver("convolver", createReverbImpulse(rate, random))
             reverbGain == GainNode("reverbGain", (Level(reverbLevel) * 6) \div 10)
             g1 == [g EXCEPT !.nodes = Append(Append(@, convolver), reverbGain)]
         IN  connect(connect(connect(g1, "makeupGain", "convolver"),
                             "convolver", "reverbGain"), "reverbGain", destination)
    ELSE g

\* the dry signal connected to the destination only when there is no wet branch
createMasteringChain_dryElse(rate, destination, opts, random) ==
    LET reverbLevel == IF opts.reverbLevel = undefined THEN 0 ELSE opts.reverbLevel
        g0 == [nodes |-> <<GainNode("input", 10000)>>, edges |-> << >>, current |-> "input"]
        g3 == createMasteringChain_deEsser(
                  createMasteringChain_room(
                      createMasteringChain_denoise(g0, opts.denoiseLevel),
                      opts.roomTreatmentLevel),
                  opts.sibilanceLevel)
        g6 == createMasteringChain_makeup(
                  createMasteringChain_compressor(
                      createMasteringChain_tone(g3, opts.preset, opts.enhanceLevel),
                      opts.preset, opts.enhanceLevel),
                  opts.enhanceLevel)
        g7 == createMasteringChain_reverb(g6, destination, reverbLevel, rate, random)
        g8 == IF reverbLevel > 0 THEN g7 ELSE connect(g7, "makeupGain", destination)
    IN  [nodes |-> g8.nodes, edges |-> g8.edges, input |-> "input"]

\* createMasteringChain(context, destination, options); rate is context.sampleRate and
\* random the values Math.random() returns while the impulse response is filled
createMasteringChain(rate, destination, opts, random) ==
    LET reverbLevel == IF opts.reverbLevel = undefined THEN 0 ELSE opts.reverbLevel
        g0 == [nodes |-> <<GainNode("input", 10000)>>, edges |-> << >>, current |-> "input"]
        g3 == createMasteringChain_deEsser(
                  createMasteringChain_room(
                      createMasteringChain_denoise(g0, opts.denoiseLevel),
                      opts.roomTreatmentLevel),
                  opts.sibilanceLevel)
        g6 == createMasteringChain_makeup(
                  createMasteringChain_compressor(
                      createMasteringChain_tone(g3, opts.preset, opts.enhanceLevel),
                      opts.preset, opts.enhanceLevel),
                  opts.enhanceLevel)
        g7 == createMasteringChain_reverb(g6, destination, reverbLevel, rate, random)
        g8 == connect(g7, "makeupGain", destination)
    IN  [nodes |-> g8.nodes, edges |-> g8.edges, input |-> "input"]

\* offlineCtx.startRendering(): the host renders the source through the graph into a
\* buffer of the context's shape; the samples are the host's function of both
startRendering(context, source, graph) ==
    [numberOfChannels |-> context.numberOfChannels, length |-> context.length,
     sampleRate |-> context.sampleRate,
     signal |-> [source |-> source.data, nodes |-> graph.nodes, edges |-> graph.edges]]

\* the render in a one-channel context, as the analysis render of removeSilence is made
masterAudio_render_mono(source, opts, random, id) ==
    LET offlineCtx == [id |-> id, numberOfChannels |-> 1, length |-> source.length,
                       sampleRate |-> source.sampleRate]
        chain == createMasteringChain(offlineCtx.sampleRate, "destination", opts, random)
        graph == [nodes |-> chain.nodes,
                  edges |-> Append(chain.edges, <<"source", chain.input>>)]
    IN  [context |-> offlineCtx, graph |-> graph,
         output |-> startRendering(offlineCtx, source, graph)]

\* one masterAudio(buffer, options) call, from new OfflineAudioContext to the resolved
\* buffer; id tells the contexts constructed apart
masterAudio_render(source, opts, random, id) ==
    LET offlineCtx == [id |-> id, numberOfChannels |-> source.numberOfChannels,
                       length |-> source.length, sampleRate |-> source.sampleRate]
        chain == createMasteringChain(offlineCtx.sampleRate, "destination", opts, random)
        graph == [nodes |-> chain.nodes,
                  edges |-> Append(chain.edges, <<"source", chain.input>>)]
    IN  [context |-> offlineCtx, graph |-> graph,
         output |-> startRendering(offlineCtx, source, graph)]

(* Inputs of the mastering model *)

ImpulseSamples == 2

\* values Math.random() returns (0.5 and 0.75)
RandomValues == {5000, 7500}

Presets == {"music", "podcast", "narration"}

EnhanceLevels == {0, 70}

DenoiseLevels == {0, 30, 31}

SibilanceLevels == {0, 30, 31}

RoomTreatmentLevels == {0, 50}

ReverbLevels == {undefined, 0, 50}

MasteringOptions ==
    [preset : Presets, enhanceLevel : EnhanceLevels, denoiseLevel : DenoiseLevels,
     sibilanceLevel : SibilanceLevels, roomTreatmentLevel : RoomTreatmentLevels,
     reverbLevel : ReverbLevels]

\* the Math.random() values one createMasteringChain call consumes
RandomDraws(opts) ==
    IF opts.reverbLevel # undefined /\ opts.reverbLevel > 0
    THEN [1..ImpulseSamples -> RandomValues]
    ELSE {<< >>}

InitMaster ==
    /\ pc = "ready"
    /\ fn = "master"
    /\ \E rate \in SampleRates, channels \in {1, 2} :
          buffer = [id |-> 0, numberOfChannels |-> channels, sampleRate |-> rate,
                    length |-> channels * BlockLen,
                    data |-> ToneData(channels, channels * BlockLen, BlockLen)]
    /\ analysisData = << >>
    /\ threshold = 0
    /\ minSilenceDuration = 0
    /\ segmentDuration = 0
    /\ offset = 0
    /\ regionsToKeep = << >>
    /\ result = << >>
    /\ allocs = 0
    /\ trimmed = NoTrim
    /\ options \in MasteringOptions
    /\ renders = << >>
    /\ PreviewIdle
    /\ app = NoApp

\* await masterAudio(buffer, options)
masterAudio ==
    /\ pc = "ready"
    /\ fn = "master"
    /\ \E random \in RandomDraws(options) :
          renders' = Append(renders, masterAudio_render(buffer, options, random, Len(renders) + 1))
    /\ pc' = "done"
    /\ fn' = "masterAudio"
    /\ UNCHANGED <<buffer, analysisData, threshold, minSilenceDuration, segmentDuration,
                   offset, regionsToKeep, result, allocs, trimmed, options>>
    /\ UNCHANGED <<previewVars, app>>

\* a second render of the same buffer with the same options
masterAudioAgain ==
    /\ pc = "done"
    /\ fn = "masterAudio"
    /\ Len(renders) = 1
    /\ \E random \in RandomDraws(options) :
          renders' = Append(renders, masterAudio_render(buffer, options, random, Len(renders) + 1))
    /\ UNCHANGED <<pipelineVars, options, previewVars, app>>

NextMaster == masterAudio \/ masterAudioAgain

SpecMaster == InitMaster /\ [][NextMaster]_vars

-----------------------------------------------------------------------------
(* The realtime preview.  Time is counted in ticks of 10 ms, so the        *)
(* scheduling margin of createPreviewPlayer (currentTime + 0.01) is one    *)
(* tick.  A source is "unstarted" until start() succeeds, then "started",  *)
(* then "finished" (it played to the end of the buffer) or "stopped"       *)
(* (stop() ended it); either way the host queues one ended event and       *)
(* delivers it later to whatever handler onended then holds.  The log of a *)
(* source lists what happened to it, in order.                             *)

MaxTime == 2

MaxPlayers == 1

MaxStops == 2

\* audioBuffer.duration of the file being previewed, in ticks
Duration == 1

\* the state in which the host hands out a new AudioContext
InitialContextStates == {"suspended", "running"}

\* resume() asked for on every call that creates the context
getAudioContext_resumeOnCreate(ctx, initial) ==
    LET made == ctx.shared = 0
        c1 == IF made
              THEN [shared |-> ctx.created + 1, created |-> ctx.created + 1,
                    state |-> initial, resuming |-> FALSE]
              ELSE ctx
        suspended == made /\ c1.state = "suspended"
    IN  [context |-> IF suspended THEN [c1 EXCEPT !.resuming = TRUE] ELSE c1,
         get |-> [created |-> made, found |-> c1.state, resumed |-> suspended,
                  returned |-> c1.shared]]

\* getAudioContext(); initial is the state of the context if this call creates it
getAudioContext(ctx, initial) ==
    LET made == ctx.shared = 0
        c1 == IF made
              THEN [shared |-> ctx.created + 1, created |-> ctx.created + 1,
                    state |-> initial, resuming |-> FALSE]
              ELSE ctx
        suspended == c1.state = "suspended"
    IN  [context |-> IF suspended THEN [c1 EXCEPT !.resuming = TRUE] ELSE c1,
         get |-> [created |-> made, found |-> c1.state, resumed |-> suspended,
                  returned |-> c1.shared]]

\* the source is created and connected but onended is never assigned
createPreviewPlayer_noHandler(ctx, initial, now, duration, at) ==
    LET got == getAudioContext(ctx, initial)
        safeOffset == Min(at, duration)
        startTime == now + 1
        threw == safeOffset < 0
    IN  [context |-> got.context, get |-> got.get, threw |-> threw, startTime |-> startTime,
         source |-> [state |-> IF threw THEN "unstarted" ELSE "started",
                     onended |-> FALSE, connected |-> TRUE,
                     startTime |-> startTime, offset |-> safeOffset, ended |-> "none",
                     log |-> IF threw THEN << >> ELSE <<"start">>]]

\* createPreviewPlayer(buffer, options, enabled, offset, onEnded) up to its return, the
\* graph between the source and the destination left aside: source.start(startTime,
\* safeOffset) throws a RangeError on a negative offset
createPreviewPlayer(ctx, initial, now, duration, at) ==
    LET got == getAudioContext(ctx, initial)
        safeOffset == Min(at, duration)
        startTime == now + 1
        threw == safeOffset < 0
    IN  [context |-> got.context, get |-> got.get, threw |-> threw, startTime |-> startTime,
         source |-> [state |-> IF threw THEN "unstarted" ELSE "started",
                     onended |-> TRUE, connected |-> TRUE,
                     startTime |-> startTime, offset |-> safeOffset, ended |-> "none",
                     log |-> IF threw THEN << >> ELSE <<"start">>]]

\* source.stop(): ends a started source; on a source that already ended the host
\* either does nothing or throws (hostThrows)
source_stop(source, hostThrows) ==
    IF source.state = "started"
    THEN [source |-> [source EXCEPT !.state = "stopped", !.ended = "queued"], threw |-> FALSE]
    ELSE [source |-> source, threw |-> hostThrows]

\* the stop handle with source.onended left in place
createPreviewPlayer_stop_keepsHandler(source, hostThrows) ==
    LET s0 == [source EXCEPT !.log = Append(@, "stop")]
        st == source_stop(s0, hostThrows)
        s1 == IF st.threw THEN [st.source EXCEPT !.log = Append(@, "caught")] ELSE st.source
    IN  [source |-> [s1 EXCEPT !.connected = FALSE], raised |-> FALSE]

\* the stop handle without the try/catch around source.stop()
createPreviewPlayer_stop_unguarded(source, hostThrows) ==
    LET s0 == [source EXCEPT !.onended = FALSE, !.log = Append(@, "stop")]
        st == source_stop(s0, hostThrows)
    IN  IF st.threw
        THEN [source |-> st.source, raised |-> TRUE]
        ELSE [source |-> [st.source EXCEPT !.connected = FALSE], raised |-> FALSE]

\* the stop handle: source.onended = null; try { source.stop() } catch(e) {};
\* source.disconnect()
createPreviewPlayer_stop(source, hostThrows) ==
    LET s0 == [source EXCEPT !.onended = FALSE, !.log = Append(@, "stop")]
        st == source_stop(s0, hostThrows)
        s1 == IF st.threw THEN [st.source EXCEPT !.log = Append(@, "caught")] ELSE st.source
    IN  [source |-> [s1 EXCEPT !.connected = FALSE], raised |-> FALSE]

\* the number of stop() calls a source has received
Stops(source) == Len(SelectSeq(source.log, LAMBDA e : e = "stop"))

\* the onEnded closure playAudio passes to createPreviewPlayer
playAudio_onEnded(st) ==
    [st EXCEPT !.isPlaying = FALSE, !.startOffsetRef = 0, !.playerRef = 0]

\* the host advances context.currentTime while the context runs
host_tick ==
    /\ audioContext.state = "running"
    /\ currentTime < MaxTime
    /\ currentTime' = currentTime + 1
    /\ UNCHANGED <<app, pipelineVars, masteringVars, audioContext, lastGet, players, raised, studio>>

\* the host platform suspends the realtime context
host_suspends ==
    /\ audioContext.state = "running"
    /\ audioContext' = [audioContext EXCEPT !.state = "suspended"]
    /\ UNCHANGED <<app, pipelineVars, masteringVars, lastGet, currentTime, players, raised, studio>>

\* a resume() that was asked for takes effect
host_resumes ==
    /\ audioContext.state = "suspended"
    /\ audioContext.resuming
    /\ audioContext' = [audioContext EXCEPT !.state = "running", !.resuming = FALSE]
    /\ UNCHANGED <<app, pipelineVars, masteringVars, lastGet, currentTime, players, raised, studio>>

\* a started source plays to the end of its buffer: the host queues its ended event
host_sourceEnds ==
    \E p \in 1..Len(players) :
        /\ players[p].state = "started"
        /\ currentTime >= players[p].startTime + (Duration - players[p].offset)
        /\ players' = [players EXCEPT ![p].state = "finished", ![p].ended = "queued",
                                      ![p].log = Append(@, "finish")]
        /\ UNCHANGED <<app, pipelineVars, masteringVars, audioContext, lastGet, currentTime,
                       raised, studio>>

\* the queued ended event of a source is delivered: the handler onended holds, if any, runs
host_dispatchEnded ==
    \E p \in 1..Len(players) :
        /\ players[p].ended = "queued"
        /\ players' = [players EXCEPT ![p].ended = "dispatched",
                                      ![p].log = IF players[p].onended
                                                 THEN @ \o <<"ended", "callback">>
                                                 ELSE Append(@, "ended")]
        /\ studio' = IF players[p].onended /\ studio.mounted
                     THEN playAudio_onEnded(studio)
                     ELSE studio
        /\ UNCHANGED <<app, pipelineVars, masteringVars, audioContext, lastGet, currentTime, raised>>

\* no pipeline call is under way
PipelineIdle ==
    /\ pc = "ready"
    /\ fn = "preview"
    /\ buffer = [id |-> 0, numberOfChannels |-> 1, sampleRate |-> 8000, length |-> BlockLen,
                 data |-> ToneData(1, BlockLen, BlockLen)]
    /\ analysisData = << >>
    /\ threshold = 0
    /\ minSilenceDuration = 0
    /\ segmentDuration = 0
    /\ offset = 0
    /\ regionsToKeep = << >>
    /\ result = << >>
    /\ allocs = 0
    /\ trimmed = NoTrim

(* A caller of createPreviewPlayer that keeps every handle it was given and calls
   stop() on them at any time *)

InitPlayer ==
    /\ PipelineIdle
    /\ MasteringIdle
    /\ PreviewIdle
    /\ app = NoApp

\* the caller creates a player
caller_createPreviewPlayer ==
    /\ Len(players) < MaxPlayers
    /\ \E at \in (0 - 1)..(Duration + 1),
          initial \in IF audioContext.shared = 0 THEN InitialContextStates
                      ELSE {audioContext.state} :
          LET r == createPreviewPlayer(audioContext, initial, currentTime, Duration, at)
          IN  /\ players' = Append(players, r.source)
              /\ audioContext' = r.context
              /\ lastGet' = r.get
    /\ UNCHANGED <<app, pipelineVars, masteringVars, currentTime, raised, studio>>

\* the caller calls stop() on a handle it holds
caller_stop ==
    \E p \in 1..Len(players), hostThrows \in BOOLEAN :
        /\ players[p].state # "unstarted"
        /\ Stops(players[p]) < MaxStops
        /\ LET r == createPreviewPlayer_stop(players[p], hostThrows)
           IN  /\ players' = [players EXCEPT ![p] = r.source]
               /\ raised' = (raised \/ r.raised)
        /\ UNCHANGED <<app, pipelineVars, masteringVars, audioContext, lastGet, currentTime, studio>>

\* another utility (decodeAudioFile, mergeBuffers, ...) calls getAudioContext()
caller_getAudioContext ==
    /\ \E initial \in IF audioContext.shared = 0 THEN InitialContextStates
                       ELSE {audioContext.state} :
          LET got == getAudioContext(audioContext, initial)
          IN  /\ audioContext' = got.context
              /\ lastGet' = got.get
    /\ UNCHANGED <<app, pipelineVars, masteringVars, currentTime, players, raised, studio>>

NextPlayer ==
    \/ caller_createPreviewPlayer
    \/ caller_getAudioContext
    \/ caller_stop
    \/ host_tick
    \/ host_suspends
    \/ host_resumes
    \/ host_sourceEnds
    \/ host_dispatchEnded

SpecPlayer == InitPlayer /\ [][NextPlayer]_vars

-----------------------------------------------------------------------------
(* MasteringStudio.  The component's state, its refs and the audio engine  *)
(* it drives are gathered in one record w while a handler runs: w.studio,  *)
(* w.players, w.audioContext, w.lastGet, w.raised, and w.threw once an     *)
(* exception is on its way out of the handler.  Each handler runs to its   *)
(* end, with the re-render and the effects its state changes cause; the    *)
(* awaits of the async handlers split them in two.                         *)

MaxSessions == 2

World ==
    [studio |-> studio, players |-> players, audioContext |-> audioContext,
     lastGet |-> lastGet, raised |-> raised, threw |-> FALSE]

\* the handler is over: what it did is the next state
Commit(w) ==
    /\ studio' = w.studio
    /\ players' = w.players
    /\ audioContext' = w.audioContext
    /\ lastGet' = w.lastGet
    /\ raised' = w.raised

\* a getAudioContext() call made by a handler
CallGetAudioContext(w, initial) ==
    LET got == getAudioContext(w.audioContext, initial)
    IN  [w EXCEPT !.audioContext = got.context, !.lastGet = got.get]

\* oldPlayer = playerRef.current; playerRef.current = null; oldPlayer.stop()
stopOldPlayer(w, hostThrows) ==
    IF w.studio.playerRef # 0
    THEN LET old == w.studio.playerRef
             r == createPreviewPlayer_stop(w.players[old], hostThrows)
         IN  [w EXCEPT !.studio.playerRef = 0,
                       !.players[old] = r.source,
                       !.raised = (w.raised \/ r.raised),
                       !.threw = r.raised]
    ELSE w

\* stopAudio(reset)
stopAudio(w, reset, hostThrows) ==
    LET w1 == stopOldPlayer(w, hostThrows)
    IN  IF w1.threw THEN w1
        ELSE [w1 EXCEPT !.studio.isPlaying = FALSE,
                        !.studio.startOffsetRef = IF reset THEN 0 ELSE @]

\* playAudio with setIsPlaying(true) ahead of createPreviewPlayer
playAudio_playingFirst(w, at, now, initial, hostThrows) ==
    IF ~ w.studio.audioBuffer THEN w
    ELSE LET w1 == stopOldPlayer(w, hostThrows)
             r == createPreviewPlayer(w1.audioContext, initial, now, Duration, at)
             w2 == [w1 EXCEPT !.audioContext = r.context, !.lastGet = r.get,
                              !.players = Append(@, r.source),
                              !.studio.isPlaying = TRUE]
         IN  IF w1.threw THEN w1
             ELSE IF r.threw THEN [w2 EXCEPT !.threw = TRUE]
             ELSE [w2 EXCEPT !.studio.playerRef = Len(w2.players),
                             !.studio.startTimeRef = r.startTime,
                             !.studio.startOffsetRef = at]

\* playAudio with playerRef.current overwritten, the old player left running
playAudio_noStop(w, at, now, initial, hostThrows) ==
    IF ~ w.studio.audioBuffer THEN w
    ELSE LET r == createPreviewPlayer(w.audioContext, initial, now, Duration, at)
             w2 == [w EXCEPT !.audioContext = r.context, !.lastGet = r.get,
                             !.players = Append(@, r.source)]
         IN  IF r.threw THEN [w2 EXCEPT !.threw = TRUE]
             ELSE [w2 EXCEPT !.studio.playerRef = Len(w2.players),
                             !.studio.startTimeRef = r.startTime,
                             !.studio.startOffsetRef = at,
                             !.studio.isPlaying = TRUE]

\* playAudio(offset); now is context.currentTime
playAudio(w, at, now, initial, hostThrows) ==
    IF ~ w.studio.audioBuffer THEN w
    ELSE LET w1 == stopOldPlayer(w, hostThrows)
             r == createPreviewPlayer(w1.audioContext, initial, now, Duration, at)
             w2 == [w1 EXCEPT !.audioContext = r.context, !.lastGet = r.get,
                              !.players = Append(@, r.source)]
         IN  IF w1.threw THEN w1
             ELSE IF r.threw THEN [w2 EXCEPT !.threw = TRUE]
             ELSE [w2 EXCEPT !.studio.playerRef = Len(w2.players),
                             !.studio.startTimeRef = r.startTime,
                             !.studio.startOffsetRef = at,
                             !.studio.isPlaying = TRUE]

\* the effect on [preset, enhanceLevel, denoiseLevel, sibilanceLevel, echoControl,
\* previewEffectEnabled], run after the render that changed one of them
parameterEffect(w, now, initial, hostThrows) ==
    IF w.studio.isPlaying /\ w.studio.audioBuffer
    THEN LET w1 == CallGetAudioContext(w, initial)
             elapsed == now - w1.studio.startTimeRef
             currentPos == w1.studio.startOffsetRef + elapsed
         IN  playAudio(w1, currentPos, now, initial, hostThrows)
    ELSE w

\* an exception left an effect: React unmounts the tree, the unmount cleanup runs
\* stopAudio(true) and the component's state is gone
unmount(w, hostThrows) ==
    LET w1 == stopAudio([w EXCEPT !.threw = FALSE], TRUE, hostThrows)
    IN  [w1 EXCEPT !.studio = [NoStudio EXCEPT !.pending = w.studio.pending,
                                               !.exportFormat = w.studio.exportFormat,
                                               !.lastExport = w.studio.lastExport,
                                               !.lamejs = w.studio.lamejs,
                                               !.orphan = w.studio.orphan]]

\* the outcomes the host may show for source.stop() on the player playerRef holds
HostThrows ==
    IF studio.playerRef # 0 /\ players[studio.playerRef].state # "started"
    THEN BOOLEAN ELSE {FALSE}

\* the state a context created now would start in
Initial ==
    IF audioContext.shared = 0 THEN InitialContextStates ELSE {audioContext.state}

\* audioBufferToMp3(buffer): lamejs is whether window.lamejs is there at the call;
\* size counts the encodeBuffer calls made
audioBufferToMp3(b, lamejs) ==
    IF ~ lamejs
    THEN [ok |-> FALSE, error |-> "lamejs not found in window", type |-> "audio/mp3", size |-> 0]
    ELSE [ok |-> TRUE, error |-> "", type |-> "audio/mp3", size |-> (b.length + 1151) \div 1152]

\* audioBufferToWav(buffer): size is the length of the blob in bytes
audioBufferToWav(b) ==
    [ok |-> TRUE, error |-> "", type |-> "audio/wav",
     size |-> 44 + b.length * b.numberOfChannels * 2]

InitStudio ==
    /\ PipelineIdle
    /\ MasteringIdle
    /\ audioContext = NoContext
    /\ lastGet = NoGet
    /\ currentTime = 0
    /\ players = << >>
    /\ raised = FALSE
    /\ \E lamejs \in BOOLEAN : studio = [NoStudio EXCEPT !.mounted = TRUE, !.lamejs = lamejs]
    /\ app = NoApp

\* window.lamejs becomes available
host_lamejsLoads ==
    /\ ~ studio.lamejs
    /\ studio' = [studio EXCEPT !.lamejs = TRUE]
    /\ UNCHANGED <<app, pipelineVars, masteringVars, audioContext, lastGet, currentTime, players, raised>>

\* handleFileSelect up to await decodeAudioFile(selectedFile); the Dropzone is shown
\* while there is no file and takes no file while isProcessing
handleFileSelect ==
    /\ studio.mounted /\ ~ studio.file /\ ~ studio.isProcessing
    /\ \E hostThrows \in HostThrows :
          LET w1 == stopAudio(World, TRUE, hostThrows)
          IN  Commit([w1 EXCEPT !.studio.isProcessing = TRUE, !.studio.file = TRUE,
                                !.studio.downloadUrl = FALSE, !.studio.pending = "decode"])
    /\ UNCHANGED <<app, pipelineVars, masteringVars, currentTime>>

\* handleFileSelect from the await on: the file could not be read, or decodeAudioFile
\* called getAudioContext() and the decoder accepted or refused the bytes
handleFileSelect_resume ==
    /\ studio.pending = "decode"
    /\ \E outcome \in {"decoded", "refused", "unreadable"}, initial \in Initial :
          LET w1 == IF outcome = "unreadable" THEN World ELSE CallGetAudioContext(World, initial)
              w2 == [w1 EXCEPT !.studio.pending = "none"]
          IN  IF ~ studio.mounted THEN Commit(w2)
              ELSE Commit([w2 EXCEPT !.studio.audioBuffer = IF outcome = "decoded" THEN TRUE ELSE @,
                                     !.studio.isProcessing = FALSE])
    /\ UNCHANGED <<app, pipelineVars, masteringVars, currentTime>>

\* togglePlayback: pause at the current position, or play from startOffsetRef; an
\* exception of the handler leaves what was done before it
togglePlayback ==
    /\ studio.mounted /\ studio.file /\ studio.audioBuffer
    /\ studio.isPlaying \/ Len(players) < MaxSessions
    /\ \E hostThrows \in HostThrows, initial \in Initial :
          IF studio.isPlaying
          THEN LET w1 == CallGetAudioContext(World, initial)
                   elapsed == currentTime - studio.startTimeRef
                   currentPos == Min(studio.startOffsetRef + elapsed, Duration)
               IN  Commit(stopAudio([w1 EXCEPT !.studio.startOffsetRef = currentPos],
                                    FALSE, hostThrows))
          ELSE Commit(playAudio(World, studio.startOffsetRef, currentTime, initial, hostThrows))
    /\ UNCHANGED <<app, pipelineVars, masteringVars, currentTime>>

\* handleSeek: a click on the visualizer
handleSeek ==
    /\ studio.mounted /\ studio.file /\ studio.audioBuffer
    /\ ~ studio.isPlaying \/ Len(players) < MaxSessions
    /\ \E newTime \in 0..Duration, hostThrows \in HostThrows, initial \in Initial :
          LET w1 == [World EXCEPT !.studio.startOffsetRef = newTime]
          IN  IF studio.isPlaying
              THEN Commit(playAudio(w1, newTime, currentTime, initial, hostThrows))
              ELSE Commit(w1)
    /\ UNCHANGED <<app, pipelineVars, masteringVars, currentTime>>

\* the stop button: stopAudio(true)
stopButton ==
    /\ studio.mounted /\ studio.file
    /\ \E hostThrows \in HostThrows : Commit(stopAudio(World, TRUE, hostThrows))
    /\ UNCHANGED <<app, pipelineVars, masteringVars, currentTime>>

\* a preset button, a slider or the Effect ON / Original button: the state changes, the
\* component renders again and the parameter effect runs; an exception of the effect
\* unmounts the component
changeParameter ==
    /\ studio.mounted /\ studio.file
    /\ ~ (studio.isPlaying /\ studio.audioBuffer) \/ Len(players) < MaxSessions
    /\ \E hostThrows \in HostThrows, initial \in Initial :
          LET w1 == parameterEffect(World, currentTime, initial, hostThrows)
          IN  IF w1.threw THEN Commit(unmount(w1, FALSE)) ELSE Commit(w1)
    /\ UNCHANGED <<app, pipelineVars, masteringVars, currentTime>>

\* handleProcessAndDownload up to await masterAudio(...); the button is there while
\* downloadUrl is null and is disabled while isProcessing
handleProcessAndDownload ==
    /\ studio.mounted /\ studio.file /\ studio.audioBuffer
    /\ ~ studio.downloadUrl /\ ~ studio.isProcessing
    /\ \E hostThrows \in HostThrows :
          LET w1 == stopAudio(World, TRUE, hostThrows)
          IN  Commit([w1 EXCEPT !.studio.isProcessing = TRUE, !.studio.pending = "export",
                                !.studio.exportFormat = studio.outputFormat])
    /\ UNCHANGED <<app, pipelineVars, masteringVars, currentTime>>

\* the export with setIsProcessing(false) as the last statement of the try block
handleProcessAndDownload_resume_noFinally ==
    /\ studio.pending = "export"
    /\ \E rendered \in BOOLEAN :
          LET blob == IF ~ rendered
                      THEN [ok |-> FALSE, error |-> "startRendering rejected", type |-> "", size |-> 0]
                      ELSE IF studio.exportFormat = "mp3"
                           THEN audioBufferToMp3(buffer, studio.lamejs)
                           ELSE audioBufferToWav(buffer)
              w1 == [World EXCEPT !.studio.pending = "none", !.studio.lastExport = blob]
          IN  IF ~ studio.mounted THEN Commit(w1)
              ELSE IF blob.ok
                   THEN Commit([w1 EXCEPT !.studio.downloadUrl = TRUE,
                                          !.studio.isProcessing = FALSE])
                   ELSE Commit(w1)
    /\ UNCHANGED <<app, pipelineVars, masteringVars, currentTime>>

\* handleProcessAndDownload from the await on: masterAudio resolved or rejected, the
\* blob is encoded in the format chosen when the handler started, then catch and finally
handleProcessAndDownload_resume ==
    /\ studio.pending = "export"
    /\ \E rendered \in BOOLEAN :
          LET blob == IF ~ rendered
                      THEN [ok |-> FALSE, error |-> "startRendering rejected", type |-> "", size |-> 0]
                      ELSE IF studio.exportFormat = "mp3"
                           THEN audioBufferToMp3(buffer, studio.lamejs)
                           ELSE audioBufferToWav(buffer)
              w1 == [World EXCEPT !.studio.pending = "none", !.studio.lastExport = blob]
          IN  IF ~ studio.mounted THEN Commit(w1)
              ELSE Commit([w1 EXCEPT !.studio.downloadUrl = IF blob.ok THEN TRUE ELSE @,
                                     !.studio.isProcessing = FALSE])
    /\ UNCHANGED <<app, pipelineVars, masteringVars, currentTime>>

\* handleReset: the Trocar Arquivo button
handleReset ==
    /\ studio.mounted /\ studio.file
    /\ \E hostThrows \in HostThrows :
          LET w1 == stopAudio(World, TRUE, hostThrows)
          IN  Commit([w1 EXCEPT !.studio.file = FALSE, !.studio.audioBuffer = FALSE,
                                !.studio.downloadUrl = FALSE])
    /\ UNCHANGED <<app, pipelineVars, masteringVars, currentTime>>

\* the MP3 / WAV buttons
setOutputFormat ==
    /\ studio.mounted /\ studio.file
    /\ \E format \in {"mp3", "wav"} \ {studio.outputFormat} :
          studio' = [studio EXCEPT !.outputFormat = format]
    /\ UNCHANGED <<app, pipelineVars, masteringVars, audioContext, lastGet, currentTime, players, raised>>

\* Fazer novo ajuste: setDownloadUrl(null)
clearDownloadUrl ==
    /\ studio.mounted /\ studio.file /\ studio.downloadUrl
    /\ studio' = [studio EXCEPT !.downloadUrl = FALSE]
    /\ UNCHANGED <<app, pipelineVars, masteringVars, audioContext, lastGet, currentTime, players, raised>>

(* The preview session: the file is loaded and played, paused, sought, stopped, its
   parameters changed, and replaced *)

InitPreview ==
    /\ InitStudio
    /\ ~ studio.lamejs

NextStudio ==
    \/ handleFileSelect
    \/ handleFileSelect_resume
    \/ togglePlayback
    \/ handleSeek
    \/ stopButton
    \/ changeParameter
    \/ handleReset
    \/ host_tick
    \/ host_resumes
    \/ host_sourceEnds
    \/ host_dispatchEnded

SpecStudio == InitPreview /\ [][NextStudio]_vars

(* The export session: the file is loaded, previewed and exported; the clock of the
   realtime context stands still meanwhile *)

NextExport ==
    \/ handleFileSelect
    \/ handleFileSelect_resume
    \/ togglePlayback
    \/ changeParameter
    \/ handleProcessAndDownload
    \/ handleProcessAndDownload_resume
    \/ handleReset
    \/ setOutputFormat
    \/ clearDownloadUrl
    \/ host_lamejsLoads
    \/ host_resumes
    \/ host_dispatchEnded

SpecExport == InitStudio /\ [][NextExport]_vars

-----------------------------------------------------------------------------
(* App: the tabs and the cutter tab's handleFileSelect *)

\* the longest list of buffers a cutter run is given by removeSilence or sliceAudioBuffer
MaxBufferList == 2

\* !file || (segments.length === 0 && isProcessing): the settings and the Dropzone are
\* rendered; otherwise the result panel with its reset button is
App_DropzoneShown ==
    /\ app.activeTab = "cutter"
    /\ ~ app.file \/ (app.segments = 0 /\ app.isProcessing)

\* a run of handleFileSelect is over: its closure and its buffer list are dropped
App_over(a) ==
    [a EXCEPT !.pending = "none", !.bufferList = 0, !.run = NoApp.run]

\* the outer catch of handleFileSelect
App_outerCatch(a) ==
    App_over([a EXCEPT !.error = TRUE, !.isProcessing = FALSE])

\* the tab buttons: MasteringStudio is rendered on the master tab only, so it unmounts
\* (its cleanup runs stopAudio(true), its state is gone) and mounts anew; a handler of
\* the unmounted instance that is still awaiting is left to finish on its own
App_setActiveTab ==
    /\ \E tab \in {"cutter", "master"} \ {app.activeTab} :
          /\ app' = [app EXCEPT !.activeTab = tab]
          /\ IF tab = "cutter"
             THEN /\ studio.mounted
                  /\ \E hostThrows \in HostThrows : Commit(unmount(World, hostThrows))
             ELSE /\ studio.pending = "none" \/ studio.orphan = "none"
                  /\ studio' = [NoStudio EXCEPT !.mounted = TRUE,
                                                !.lamejs = studio.lamejs,
                                                !.orphan = IF studio.pending # "none"
                                                           THEN studio.pending
                                                           ELSE studio.orphan]
                  /\ UNCHANGED <<audioContext, lastGet, players, raised>>
    /\ UNCHANGED <<pipelineVars, masteringVars, currentTime>>

\* a handler of an unmounted MasteringStudio comes back from its await: decodeAudioFile
\* has called getAudioContext() unless the file could not be read; the state it sets is
\* that of the instance that is gone
orphan_resume ==
    /\ studio.orphan # "none"
    /\ \E outcome \in {"decoded", "unreadable"}, initial \in Initial :
          LET w1 == IF studio.orphan = "decode" /\ outcome = "decoded"
                    THEN CallGetAudioContext(World, initial)
                    ELSE World
          IN  Commit([w1 EXCEPT !.studio.orphan = "none"])
    /\ UNCHANGED <<app, pipelineVars, masteringVars, currentTime>>

\* the mode buttons, disabled while isProcessing
App_setMode ==
    /\ App_DropzoneShown /\ ~ app.isProcessing
    /\ \E m \in {"cut", "silence"} \ {app.mode} : app' = [app EXCEPT !.mode = m]
    /\ UNCHANGED <<pipelineVars, masteringVars, previewVars>>

\* the merged / individual buttons, rendered in silence mode
App_setSilenceOutputType ==
    /\ App_DropzoneShown /\ app.mode = "silence"
    /\ \E type \in {"merged", "individual"} \ {app.silenceOutputType} :
          app' = [app EXCEPT !.silenceOutputType = type]
    /\ UNCHANGED <<pipelineVars, masteringVars, previewVars>>

\* the cutter's handleFileSelect up to await decodeAudioFile(selectedFile); the
\* Dropzone takes no file while isProcessing
App_handleFileSelect ==
    /\ App_DropzoneShown /\ ~ app.isProcessing
    /\ app' = [app EXCEPT !.file = TRUE, !.error = FALSE, !.segments = 0,
                          !.downloadLink = FALSE, !.isProcessing = TRUE,
                          !.pending = "decode", !.bufferList = 0,
                          !.run = [outputFormat |-> app.outputFormat,
                                   silenceOutputType |-> app.silenceOutputType]]
    /\ UNCHANGED <<pipelineVars, masteringVars, previewVars>>

\* handleFileSelect from await decodeAudioFile on: the file could not be read, or
\* decodeAudioFile called getAudioContext() and the decoder accepted or refused the
\* bytes; in silence mode the handler awaits removeSilence, in cut mode
\* sliceAudioBuffer (which calls getAudioContext()) returns n buffers, an empty list
\* is thrown into the outer catch, and the deferred step is scheduled
App_handleFileSelect_decoded ==
    /\ app.pending = "decode"
    /\ \E outcome \in {"decoded", "refused", "unreadable"}, initial \in Initial :
          LET g1 == IF outcome = "unreadable"
                    THEN [context |-> audioContext, get |-> lastGet]
                    ELSE getAudioContext(audioContext, initial)
              g2 == getAudioContext(g1.context, initial)
          IN  IF outcome # "decoded"
              THEN /\ app' = App_outerCatch(app)
                   /\ audioContext' = g1.context /\ lastGet' = g1.get
              ELSE IF app.mode = "silence"
              THEN /\ app' = [app EXCEPT !.pending = "removeSilence"]
                   /\ audioContext' = g1.context /\ lastGet' = g1.get
              ELSE /\ \E n \in 0..MaxBufferList :
                         app' = IF n = 0 THEN App_outerCatch(app)
                                ELSE [app EXCEPT !.bufferList = n, !.pending = "timer"]
                   /\ audioContext' = g2.context /\ lastGet' = g2.get
    /\ UNCHANGED <<pipelineVars, masteringVars, currentTime, players, raised, studio>>

\* handleFileSelect from await removeSilence(audioBuffer) on: the offline render
\* failed, or removeSilence (which calls getAudioContext()) returned n buffers, which
\* mergeBuffers joins into one when the output is merged
App_handleFileSelect_analysed ==
    /\ app.pending = "removeSilence"
    /\ \E rendered \in BOOLEAN, initial \in Initial :
          LET g1 == getAudioContext(audioContext, initial)
          IN  IF ~ rendered
              THEN /\ app' = App_outerCatch(app)
                   /\ UNCHANGED <<audioContext, lastGet>>
              ELSE /\ \E n \in 0..MaxBufferList :
                         app' = IF n = 0 THEN App_outerCatch(app)
                                ELSE [app EXCEPT !.pending = "timer",
                                                 !.bufferList =
                                                     IF app.run.silenceOutputType = "merged"
                                                     THEN 1 ELSE n]
                   /\ audioContext' = g1.context /\ lastGet' = g1.get
    /\ UNCHANGED <<pipelineVars, masteringVars, currentTime, players, raised, studio>>

\* the encoder the deferred step calls for each buffer of the list
App_encode(format, b, lamejs) ==
    IF format = "mp3" THEN audioBufferToMp3(b, lamejs) ELSE audioBufferToWav(b)

\* the deferred step with a catch that records the error and leaves isProcessing alone
App_deferred_catchKeepsBusy ==
    /\ app.pending = "timer"
    /\ LET blob == App_encode(app.run.outputFormat, buffer, studio.lamejs)
       IN  app' = IF ~ blob.ok
                  THEN App_over([app EXCEPT !.error = TRUE])
                  ELSE IF app.bufferList = 1
                  THEN App_over([app EXCEPT !.segments = app.bufferList,
                                            !.downloadLink = TRUE,
                                            !.isProcessing = FALSE])
                  ELSE [app EXCEPT !.segments = app.bufferList, !.pending = "zip"]
    /\ UNCHANGED <<pipelineVars, masteringVars, previewVars>>

\* the setTimeout callback up to await zip.generateAsync: every buffer is encoded in
\* the format the handler captured, setSegments, then the single blob is linked or the
\* archive is started; an exception goes to the inner catch
App_deferred ==
    /\ app.pending = "timer"
    /\ LET blob == App_encode(app.run.outputFormat, buffer, studio.lamejs)
       IN  app' = IF ~ blob.ok
                  THEN App_over([app EXCEPT !.error = TRUE, !.isProcessing = FALSE])
                  ELSE IF app.bufferList = 1
                  THEN App_over([app EXCEPT !.segments = app.bufferList,
                                            !.downloadLink = TRUE,
                                            !.isProcessing = FALSE])
                  ELSE [app EXCEPT !.segments = app.bufferList, !.pending = "zip"]
    /\ UNCHANGED <<pipelineVars, masteringVars, previewVars>>

\* the setTimeout callback from await zip.generateAsync on: the archive is linked, or
\* the rejection goes to the inner catch
App_deferred_zipped ==
    /\ app.pending = "zip"
    /\ \E generated \in BOOLEAN :
          app' = IF generated
                 THEN App_over([app EXCEPT !.downloadLink = TRUE, !.isProcessing = FALSE])
                 ELSE App_over([app EXCEPT !.error = TRUE, !.isProcessing = FALSE])
    /\ UNCHANGED <<pipelineVars, masteringVars, previewVars>>

\* the cutter's handleReset: Processar novo arquivo, on the result panel
App_handleReset ==
    /\ app.activeTab = "cutter" /\ ~ App_DropzoneShown
    /\ app' = [app EXCEPT !.file = FALSE, !.segments = 0, !.downloadLink = FALSE,
                          !.error = FALSE]
    /\ UNCHANGED <<pipelineVars, masteringVars, previewVars>>

(* The processing runs of both tabs: files are loaded, cut and exported in the default
   format (MP3) while the tabs are switched; nothing is played *)

NextBusy ==
    \/ App_setActiveTab
    \/ App_setMode
    \/ App_setSilenceOutputType
    \/ App_handleFileSelect
    \/ App_handleFileSelect_decoded
    \/ App_handleFileSelect_analysed
    \/ App_deferred
    \/ App_deferred_zipped
    \/ App_handleReset
    \/ handleFileSelect
    \/ handleFileSelect_resume
    \/ handleProcessAndDownload
    \/ handleProcessAndDownload_resume
    \/ handleReset
    \/ orphan_resume

\* every promise awaited settles and the timer fires: the continuation of a pending
\* handler is run by the event loop once it is ready
SpecBusy ==
    /\ InitStudio /\ [][NextBusy]_vars
    /\ WF_vars(App_handleFileSelect_decoded)
    /\ WF_vars(App_handleFileSelect_analysed)
    /\ WF_vars(App_deferred)
    /\ WF_vars(App_deferred_zipped)
    /\ WF_vars(handleFileSelect_resume)
    /\ WF_vars(handleProcessAndDownload_resume)


DataLengthOk ==
    /\ \A c \in 1..buffer.numberOfChannels : Length(buffer.data[c]) = buffer.length
    /\ \A k \in 1..Len(result) : \A c \in 1..result[k].numberOfChannels :
          Length(result[k].data[c]) = result[k].length

-----------------------------------------------------------------------------
(* Sample-exact comparison of two arrays *)

\* out[k] = src[off + k] for every index k of out
SamplesFrom(out, src, off) ==
    /\ off >= 0
    /\ off + Length(out) <= Length(src)
    /\ Expand(out) = SubSeq(Expand(src), off + 1, off + Length(out))

RECURSIVE SelectSeq2(_, _, _)
SelectSeq2(s, r, rate) ==
    IF r > Len(s) THEN << >>
    ELSE (IF (fn = "removeSilence" /\ (s[r].end - s[r].start) * 10 >= rate)
             \/ (fn = "utils_removeSilence" /\ s[r].end - s[r].start >= 1000)
          THEN <<s[r]>> ELSE << >>) \o SelectSeq2(s, r + 1, rate)

\* the regions that pass the minimum-length post-filter of the variant called
Surviving == SelectSeq2(regionsToKeep, 1, buffer.sampleRate)

SilenceDone == pc = "done" /\ fn \in {"removeSilence", "utils_removeSilence"}

\* C1: removeSilence never returns an empty list; when zero regions survive it
\* returns the one-element list holding the input buffer itself
C1_NeverEmpty ==
    SilenceDone =>
        /\ Len(result) >= 1
        /\ Len(Surviving) = 0 => result = <<buffer>>

\* C2: every region pushed to regionsToKeep has 0 <= start < end <= buffer.length,
\* and each region starts at or after the end of the one pushed before it
C2_RegionsOrdered ==
    SilenceDone =>
        /\ \A k \in 1..Len(regionsToKeep) :
              /\ 0 <= regionsToKeep[k].start
              /\ regionsToKeep[k].start < regionsToKeep[k].end
              /\ regionsToKeep[k].end <= buffer.length
        /\ \A k \in 1..(Len(regionsToKeep) - 1) :
              regionsToKeep[k + 1].start >= regionsToKeep[k].end

\* C3: the k-th buffer returned is the k-th surviving region: the input's channel
\* count and sample rate, length end - start, and on every channel the samples of
\* the ORIGINAL buffer from start on
C3_CopiedFromOriginal ==
    (SilenceDone /\ Len(regionsToKeep) > 0) =>
        /\ Len(result) = Len(Surviving)
        /\ \A k \in 1..Len(result) :
              /\ result[k].numberOfChannels = buffer.numberOfChannels
              /\ result[k].sampleRate = buffer.sampleRate
              /\ result[k].length = Surviving[k].end - Surviving[k].start
              /\ \A c \in 1..buffer.numberOfChannels :
                    /\ Length(result[k].data[c]) = result[k].length
                    /\ SamplesFrom(result[k].data[c], buffer.data[c], Surviving[k].start)

\* two regions of a stereo buffer were returned, the second cut from an offset
C3_Witness ==
    /\ SilenceDone
    /\ buffer.numberOfChannels = 2
    /\ Len(result) = 2
    /\ Surviving[2].start > 0
    /\ At(buffer.data[1], 0) # 0

-----------------------------------------------------------------------------
(* Edge trimmer *)

\* the offsets of the forward-scan windows of buf whose average exceeds thr
ForwardLoud(buf, thr) ==
    {i \in 0..(buf.length - 1) :
        /\ i % windowSize(buf.sampleRate) = 0
        /\ trimAudio_loud(buf, thr, i, Min(i + windowSize(buf.sampleRate), buf.length))}

\* the ends of the backward-scan windows of buf whose average exceeds thr
BackwardLoud(buf, thr) ==
    {i \in 1..buf.length :
        /\ (buf.length - i) % windowSize(buf.sampleRate) = 0
        /\ trimAudio_loud(buf, thr, Max(0, i - windowSize(buf.sampleRate)), i)}

\* no analysis window of buf has an average above thr
BelowThroughout(buf, thr) == ForwardLoud(buf, thr) = {} /\ BackwardLoud(buf, thr) = {}

\* every analysis window of buf has an average above thr
AboveThroughout(buf, thr) ==
    /\ buf.length > 0
    /\ \A i \in 0..(buf.length - 1) :
          i % windowSize(buf.sampleRate) = 0 => i \in ForwardLoud(buf, thr)
    /\ \A i \in 1..buf.length :
          (buf.length - i) % windowSize(buf.sampleRate) = 0 => i \in BackwardLoud(buf, thr)

TrimDone == pc \in {"done", "again"} /\ fn = "trimAudio"

\* the buffer the k-th trimAudio call was given
TrimInput(k) == IF k = 1 THEN buffer ELSE result[k - 1]

\* C5: a buffer judged entirely below threshold is returned itself: no new buffer
\* is allocated and no fade is applied
C5_SilentReturnsInput ==
    (TrimDone /\ BelowThroughout(buffer, threshold)) =>
        /\ result[1] = buffer
        /\ allocs = 0

\* C6: the buffer trimAudio returns for a non-empty input has a length L with
\* 0 < L <= input length, and the input's channel count and sample rate
C6_NeverEmptyOrInverted ==
    TrimDone =>
        \A k \in 1..Len(result) :
            TrimInput(k).length > 0 =>
                /\ result[k].length > 0
                /\ result[k].length <= TrimInput(k).length
                /\ result[k].numberOfChannels = TrimInput(k).numberOfChannels
                /\ result[k].sampleRate = TrimInput(k).sampleRate
                /\ \A c \in 1..result[k].numberOfChannels :
                      Length(result[k].data[c]) = result[k].length

\* a stereo buffer was cropped at both ends
C6_Witness ==
    /\ pc = "done" /\ fn = "trimAudio"
    /\ buffer.numberOfChannels = 2
    /\ trimmed[1].start > 0
    /\ trimmed[1].end < buffer.length
    /\ result[1].length = trimmed[1].end - trimmed[1].start

\* C7 as stated: when the first result r is above threshold throughout, the second
\* trimAudio finds start = 0 and end = length and returns the length and the
\* samples of r
C7_Idempotent ==
    (pc = "again" /\ AboveThroughout(result[1], threshold)) =>
        /\ trimmed[2] = [start |-> 0, end |-> result[1].length]
        /\ result[2].length = result[1].length
        /\ \A c \in 1..result[1].numberOfChannels :
              Expand(result[2].data[c]) = Expand(result[1].data[c])

\* C7 amended: when the first result r is above threshold throughout, the second
\* trimAudio finds start = 0 and end = length and returns a buffer of r's length
\* whose samples are r's outside the first and last F = floor(0.02 * sampleRate)
\* samples; inside those two zones the fade is applied once more
C7_IdempotentCrop ==
    (pc = "again" /\ AboveThroughout(result[1], threshold)) =>
        LET r == result[1]
            F == (r.sampleRate * 2) \div 100
            fin(k) == IF k < F THEN k ELSE F
            fout(k) == IF r.length - 1 - k < F THEN r.length - 1 - k ELSE F
        IN  /\ trimmed[2] = [start |-> 0, end |-> r.length]
            /\ result[2].length = r.length
            /\ result[2].numberOfChannels = r.numberOfChannels
            /\ result[2].sampleRate = r.sampleRate
            /\ \A c \in 1..r.numberOfChannels :
                  LET x == Expand(r.data[c])
                  IN  Expand(result[2].data[c]) =
                         [k \in 1..r.length |->
                             IF F = 0 THEN x[k]
                             ELSE Scale(Scale(x[k], fin(k - 1), F), fout(k - 1), F)]

\* a result above threshold throughout was trimmed again, and the second fade
\* changed a sample
C7_Witness ==
    /\ pc = "again"
    /\ AboveThroughout(result[1], threshold)
    /\ result[2].length = result[1].length
    /\ At(result[2].data[1], 1) # At(result[1].data[1], 1)

\* an input whose scans cross (start >= end) although it is not empty
TrimCrossed == TrimDone /\ buffer.length > 0 /\ trimmed[1].start >= trimmed[1].end

-----------------------------------------------------------------------------
(* Fixed-duration segmenter *)

SliceDone == pc = "done" /\ fn \in {"sliceAudioBuffer", "utils_sliceAudioBuffer"}

\* S = floor(d x sampleRate)
SegLen == (segmentDuration * buffer.sampleRate) \div 10000

RECURSIVE SumLengths(_, _)
SumLengths(bufs, k) == IF k > Len(bufs) THEN 0 ELSE bufs[k].length + SumLengths(bufs, k + 1)

\* C8: the lengths of the returned buffers sum to the input's sample count, minus
\* only the final remainder chunk when it is shorter than 0.1 s and discarded
C8_LengthsSum ==
    SliceDone =>
        LET n == (buffer.length + SegLen - 1) \div SegLen
            lastLen == buffer.length - (n - 1) * SegLen
        IN  \/ SumLengths(result, 1) = buffer.length
            \/ /\ lastLen * 10 < buffer.sampleRate
               /\ SumLengths(result, 1) = buffer.length - lastLen

\* the first and last F samples of a chunk are fade zones in the current
\* utilities; the older sliceAudioBuffer has none
FadeZone == IF fn = "sliceAudioBuffer" THEN buffer.sampleRate \div 100 ELSE 0

\* C9: returned chunk k (counted from 0) starts at source sample k x S, has S
\* samples unless it is the last, keeps the channel count and the sample rate, and
\* between its fade zones holds the source samples in source order
C9_ConsecutiveChunks ==
    SliceDone =>
        \A k \in 1..Len(result) :
            LET start == (k - 1) * SegLen
                len == Min(SegLen, buffer.length - start)
            IN  /\ start < buffer.length
                /\ result[k].length = len
                /\ k < Len(result) => result[k].length = SegLen
                /\ result[k].numberOfChannels = buffer.numberOfChannels
                /\ result[k].sampleRate = buffer.sampleRate
                /\ \A c \in 1..buffer.numberOfChannels :
                      /\ Length(result[k].data[c]) = len
                      /\ SubSeq(Expand(result[k].data[c]), FadeZone + 1, len - FadeZone)
                            = SubSeq(Expand(buffer.data[c]), start + FadeZone + 1,
                                     start + len - FadeZone)

\* the concrete scenario: 2 channels, 44100 Hz, 3 seconds, d = 1 gives 3 chunks
\* of 44100 samples
C9_Witness ==
    /\ SliceDone
    /\ fn = "sliceAudioBuffer"
    /\ buffer = ExampleBuffer
    /\ segmentDuration = 10000
    /\ Len(result) = 3
    /\ \A k \in 1..3 : result[k].length = 44100 /\ result[k].numberOfChannels = 2

\* C10: with F = floor(0.01 x sampleRate), sample j < F of every returned chunk is
\* the source sample scaled by j/F, sample chunkLen-1-j is scaled by j/F, the first
\* and last samples are 0 and the samples between the fade zones are the source's
C10_FadedChunks ==
    SliceDone =>
        \A k \in 1..Len(result) : \A c \in 1..buffer.numberOfChannels :
            LET F == buffer.sampleRate \div 100
                start == (k - 1) * SegLen
                len == result[k].length
                x == SubSeq(Expand(buffer.data[c]), start + 1, start + len)
                y == Expand(result[k].data[c])
            IN  /\ Len(y) = len
                /\ \A j \in 0..(F - 1) :
                      /\ y[j + 1] = Scale(x[j + 1], j, F)
                      /\ y[len - j] = Scale(x[len - j], j, F)
                /\ y[1] = 0
                /\ y[len] = 0
                /\ SubSeq(y, F + 1, len - F) = SubSeq(x, F + 1, len - F)

\* C10 for the current utilities alone
FadedChunksCurrent == fn = "sliceAudioBuffer" => C10_FadedChunks

-----------------------------------------------------------------------------
(* Mutation discipline *)

\* C4: sliceAudioBuffer, trimAudio and removeSilence never modify their input
\* buffer: no step of any of them changes a sample of it
C4_InputUntouched == [][buffer' = buffer]_vars

\* trimAudio returned a new buffer whose first sample the fade-in zeroed while
\* the input sample it was copied from is not zero
C4_Witness ==
    /\ pc = "done" /\ fn = "trimAudio"
    /\ result[1].id # buffer.id
    /\ At(buffer.data[1], trimmed[1].start) # 0
    /\ At(result[1].data[1], 0) = 0

-----------------------------------------------------------------------------
(* The mastering chain: C11 to C14 *)

\* the level a stage is gated on, an absent reverbLevel counting as 0
LevelOf(l) == IF l = undefined THEN 0 ELSE l

HasNode(g, name) == \E k \in 1..Len(g.nodes) : g.nodes[k].name = name

NodeNamed(g, name) == g.nodes[CHOOSE k \in 1..Len(g.nodes) : g.nodes[k].name = name]

EdgeSet(g) == {g.edges[k] : k \in 1..Len(g.edges)}

Successors(g, n) == {e[2] : e \in {d \in EdgeSet(g) : d[1] = n}}

\* the path followed from node n along the connections, the wet branch left aside
RECURSIVE DryPathFrom(_, _, _)
DryPathFrom(g, n, fuel) ==
    LET next == Successors(g, n) \ {"convolver"}
    IN  IF fuel = 0 \/ Cardinality(next) # 1
        THEN <<n>>
        ELSE <<n>> \o DryPathFrom(g, CHOOSE m \in next : TRUE, fuel - 1)

DryPath(g) == DryPathFrom(g, "source", Len(g.nodes) + 2)

AllLevelsZero ==
    /\ options.enhanceLevel = 0
    /\ options.denoiseLevel = 0
    /\ options.sibilanceLevel = 0
    /\ options.roomTreatmentLevel = 0
    /\ LevelOf(options.reverbLevel) = 0

\* C11: with every level and enhance at 0 the chain is a pure dry path for every
\* preset: nothing but the input handle stands between the source and the destination
C11_DryPathAtZero ==
    \A r \in 1..Len(renders) :
        AllLevelsZero => DryPath(renders[r].graph) = <<"source", "input", "destination">>

\* C12: each optional stage is in the graph exactly when its level is > 0 (the low-pass
\* and the 10 kHz shelf exactly when their level is > 0.3), with the filter types and
\* frequencies named, and a stage at level 0 creates no node at all
C12_LevelGated ==
    \A r \in 1..Len(renders) :
        LET g == renders[r].graph
            denoise == options.denoiseLevel > 0
            lowPass == options.denoiseLevel > 30
            room == options.roomTreatmentLevel > 0
            deEsser == options.sibilanceLevel > 0
            soften == options.sibilanceLevel > 30
            reverb == LevelOf(options.reverbLevel) > 0
            Count(b, n) == IF b THEN n ELSE 0
        IN  /\ HasNode(g, "highPass") <=> denoise
            /\ HasNode(g, "highShelfHiss") <=> denoise
            /\ HasNode(g, "lowPass") <=> lowPass
            /\ HasNode(g, "deBoxFilter") <=> room
            /\ HasNode(g, "mudFilter") <=> room
            /\ HasNode(g, "deEsserTarget") <=> deEsser
            /\ HasNode(g, "deEsserSoften") <=> soften
            /\ HasNode(g, "convolver") <=> reverb
            /\ HasNode(g, "reverbGain") <=> reverb
            /\ denoise => /\ NodeNamed(g, "highPass").type = "highpass"
                          /\ NodeNamed(g, "highShelfHiss").type = "highshelf"
                          /\ NodeNamed(g, "highShelfHiss").p[1] = 50000000
            /\ lowPass => NodeNamed(g, "lowPass").type = "lowpass"
            /\ room => /\ NodeNamed(g, "deBoxFilter").type = "peaking"
                       /\ NodeNamed(g, "deBoxFilter").p[3] < 0
                       /\ NodeNamed(g, "mudFilter").type = "peaking"
                       /\ NodeNamed(g, "mudFilter").p[3] < 0
            /\ deEsser => /\ NodeNamed(g, "deEsserTarget").type = "peaking"
                          /\ NodeNamed(g, "deEsserTarget").p[1] = 75000000
                          /\ NodeNamed(g, "deEsserTarget").p[3] < 0
            /\ soften => /\ NodeNamed(g, "deEsserSoften").type = "highshelf"
                         /\ NodeNamed(g, "deEsserSoften").p[1] = 100000000
            /\ reverb => /\ NodeNamed(g, "convolver").kind = "Convolver"
                         /\ NodeNamed(g, "reverbGain").kind = "Gain"
            /\ Len(g.nodes) = 6 + Count(denoise, 2) + Count(lowPass, 1) + Count(room, 2)
                                + Count(deEsser, 1) + Count(soften, 1) + Count(reverb, 2)

\* a render at denoise 0.31 and sibilance 0.3 without reverbLevel: the low-pass is
\* there, the 10 kHz shelf and the convolver are not
C12_Witness ==
    /\ Len(renders) >= 1
    /\ options.denoiseLevel = 31 /\ options.sibilanceLevel = 30
    /\ options.roomTreatmentLevel = 0 /\ options.reverbLevel = undefined
    /\ HasNode(renders[1].graph, "lowPass")
    /\ HasNode(renders[1].graph, "deEsserTarget")
    /\ ~ HasNode(renders[1].graph, "deEsserSoften")
    /\ ~ HasNode(renders[1].graph, "convolver")

DryOrder ==
    <<"source", "input", "highPass", "highShelfHiss", "lowPass", "deBoxFilter", "mudFilter",
      "deEsserTarget", "deEsserSoften", "lowShelf", "highShelf", "midPeaking",
      "compressor", "makeupGain", "destination">>

\* C13: the dry path is one series chain input -> denoise -> room treatment -> de-esser
\* -> low-shelf -> high-shelf -> mid-peaking -> compressor -> makeup gain -> destination;
\* tone EQ, compressor and makeup gain are always there, and makeup gain is connected
\* to the destination with or without the wet branch
C13_DrySeriesOrder ==
    \A r \in 1..Len(renders) :
        LET g == renders[r].graph
            InGraph(n) == n \in {"source", "destination"} \/ HasNode(g, n)
            path == DryPath(g)
        IN  /\ path = SelectSeq(DryOrder, InGraph)
            /\ \A n \in {"lowShelf", "highShelf", "midPeaking", "compressor", "makeupGain"} :
                  HasNode(g, n)
            /\ <<"makeupGain", "destination">> \in EdgeSet(g)
            /\ \A k \in 1..Len(g.nodes) :
                  g.nodes[k].name \notin {"convolver", "reverbGain"}
                      => \E i \in 1..Len(path) : path[i] = g.nodes[k].name

\* a render with every optional stage and the wet branch: the dry path has all 15 nodes
C13_Witness ==
    /\ Len(renders) >= 1
    /\ HasNode(renders[1].graph, "convolver")
    /\ <<"reverbGain", "destination">> \in EdgeSet(renders[1].graph)
    /\ DryPath(renders[1].graph) = DryOrder

\* C14: two renders of the same buffer with the same options build identical graphs with
\* identical parameters and data, the impulse response included, and produce identical
\* output buffers
C14_Deterministic ==
    Len(renders) = 2 =>
        /\ renders[1].graph = renders[2].graph
        /\ renders[1].output = renders[2].output

\* without the wet branch the two renders agree
DeterministicWhenDry ==
    (Len(renders) = 2 /\ LevelOf(options.reverbLevel) = 0) =>
        /\ renders[1].graph = renders[2].graph
        /\ renders[1].output = renders[2].output

-----------------------------------------------------------------------------
(* The preview player: C16 and C18 *)

\* the position of the first event e in a log, 0 when it is not there
IndexOf(log, e) ==
    IF \E k \in 1..Len(log) : log[k] = e
    THEN CHOOSE k \in 1..Len(log) : log[k] = e /\ \A j \in 1..(k - 1) : log[j] # e
    ELSE 0

Happened(log, e) == IndexOf(log, e) > 0

\* a source apart from the record of what was called on it
Audible(source) == [source EXCEPT !.log = << >>]

\* C16: the stop() handle never raises, whenever it is called and whether or not the
\* underlying source.stop() fails, and a call after the first changes nothing
C16_StopIdempotent ==
    [][/\ ~ raised'
       /\ \A p \in 1..Len(players) :
             (Len(players') = Len(players) /\ Stops(players[p]) >= 1
                 /\ Stops(players'[p]) > Stops(players[p]))
             => Audible(players'[p]) = Audible(players[p])]_vars

\* a source that played to its end, then had stop() called twice, the host throwing on
\* the first of the two calls
C16_Witness ==
    \E p \in 1..Len(players) :
        /\ Happened(players[p].log, "finish")
        /\ IndexOf(players[p].log, "finish") < IndexOf(players[p].log, "stop")
        /\ Happened(players[p].log, "caught")
        /\ Stops(players[p]) = 2
        /\ ~ raised

\* C18: the completion callback is invoked when playback reaches the buffer's end or
\* is explicitly stopped
C18_CallbackOnEndOrStop ==
    \A p \in 1..Len(players) :
        players[p].ended = "dispatched" => Happened(players[p].log, "callback")

\* C18 as amended: the completion callback is invoked, once, when playback reaches the
\* buffer's end and no stop() came before the ended event is delivered; a player that
\* was stopped first never invokes it
C18_CallbackOnNaturalEnd ==
    \A p \in 1..Len(players) :
        LET log == players[p].log
            stoppedFirst == Happened(log, "stop") /\ IndexOf(log, "stop") < IndexOf(log, "ended")
        IN  players[p].ended = "dispatched" =>
                /\ Happened(log, "callback") <=> ~ stoppedFirst
                /\ Len(SelectSeq(log, LAMBDA e : e = "callback")) <= 1

\* a source that played to its end and whose callback ran
C18_Witness ==
    \E p \in 1..Len(players) :
        players[p].log = <<"start", "finish", "ended", "callback">>

-----------------------------------------------------------------------------
(* The preview session of MasteringStudio: C15 and C17 *)

\* the number of times the completion callback of a source ran
Callbacks(source) == Len(SelectSeq(source.log, LAMBDA e : e = "callback"))

\* the source is playing: started, and neither stopped nor at its end
Live(source) == source.state = "started"

C17_NoCallbackAfterStop ==
    [][\A p \in 1..Len(players) :
          Callbacks(players'[p]) > Callbacks(players[p]) =>
              /\ Stops(players[p]) = 0
              /\ Callbacks(players[p]) = 0
              /\ Callbacks(players'[p]) = 1
              /\ studio.mounted => studio.playerRef = p]_vars

\* a first session played to its end and was stopped before its ended event was
\* delivered, which then called nothing; a second session is playing
C17_Witness ==
    /\ Len(players) = 2
    /\ players[1].log = <<"start", "finish", "stop", "ended">>
    /\ Live(players[2])
    /\ studio.playerRef = 2
    /\ studio.isPlaying

-----------------------------------------------------------------------------
(* The shared realtime context: C19 *)

\* C19: getAudioContext creates the realtime context on the first call only and returns
\* that one instance on every call, and every call that finds the context suspended asks
\* it to resume
C19_OneSharedContext ==
    /\ audioContext.created <= 1
    /\ lastGet = NoGet => audioContext.shared = 0 /\ audioContext.created = 0
    /\ lastGet # NoGet =>
          /\ audioContext.created = 1
          /\ audioContext.shared = 1
          /\ lastGet.returned = 1
          /\ lastGet.resumed <=> lastGet.found = "suspended"

\* a later call found the context it had created earlier suspended and asked it to resume
C19_Witness ==
    /\ lastGet # NoGet
    /\ ~ lastGet.created
    /\ lastGet.found = "suspended"
    /\ lastGet.resumed
    /\ audioContext.resuming
    /\ audioContext.created = 1

-----------------------------------------------------------------------------
(* The export of MasteringStudio: C20 *)

\* the step in which handleProcessAndDownload goes on after a render that succeeded
Encodes == studio.pending = "export" /\ studio'.pending = "none"
               /\ studio'.lastExport.error # "startRendering rejected"

\* C20: with window.lamejs missing, audioBufferToMp3 fails before it encodes anything and
\* the export ends with isProcessing false and no download URL, while audioBufferToWav
\* succeeds on the same buffer and a WAV export made in the same state gives its URL
C20_Mp3FailureContained ==
    [][(Encodes /\ ~ studio.lamejs) =>
          /\ studio.exportFormat = "mp3" =>
                /\ ~ studio'.lastExport.ok
                /\ studio'.lastExport.size = 0
                /\ ~ studio'.isProcessing
                /\ ~ studio'.downloadUrl
                /\ audioBufferToWav(buffer).ok
                /\ audioBufferToWav(buffer).size > 44
          /\ studio.exportFormat = "wav" =>
                /\ studio'.lastExport.ok
                /\ studio'.lastExport.type = "audio/wav"
                /\ ~ studio'.isProcessing
                /\ studio.mounted => studio'.downloadUrl]_vars

\* an MP3 export has failed for want of the encoder and the component is idle again
C20_Witness ==
    /\ studio.mounted
    /\ studio.file
    /\ studio.lastExport.error = "lamejs not found in window"
    /\ studio.lastExport.size = 0
    /\ ~ studio.lamejs
    /\ ~ studio.isProcessing
    /\ ~ studio.downloadUrl

-----------------------------------------------------------------------------
(* The edge trimmer's crop and fades: C21 and C22 *)

\* trimAudio returned a new buffer cut from the input
Cropped == TrimDone /\ result[1].id # buffer.id

SetMin(S) == CHOOSE x \in S : \A y \in S : x <= y
SetMax(S) == CHOOSE x \in S : \A y \in S : x >= y

\* the offset of the forward-scan window that holds sample j
ForwardWindowOf(buf, j) == (j \div windowSize(buf.sampleRate)) * windowSize(buf.sampleRate)

\* the end of the backward-scan window that holds sample j
BackwardWindowOf(buf, j) ==
    buf.length - ((buf.length - 1 - j) \div windowSize(buf.sampleRate)) * windowSize(buf.sampleRate)

\* C21: when trimAudio crops, the result is the range [start, end) of the input, start
\* one window before the first forward-scan window above the threshold (not below 0),
\* end one window after the first backward-scan window above the threshold (not beyond
\* the length); every sample cut from the head or the tail lies in a window at or below
\* the threshold, and everything between start and end is kept
C21_CropRange ==
    Cropped =>
        LET w == windowSize(buffer.sampleRate)
            F == (buffer.sampleRate * 2) \div 100
            start == trimmed[1].start
            end == trimmed[1].end
            fwd == ForwardLoud(buffer, threshold)
            bwd == BackwardLoud(buffer, threshold)
        IN  /\ fwd # {} => start = Max(0, SetMin(fwd) - w)
            /\ bwd # {} => end = Min(buffer.length, SetMax(bwd) + w)
            /\ 0 <= start /\ start < end /\ end <= buffer.length
            /\ result[1].length = end - start
            /\ \A c \in 1..buffer.numberOfChannels :
                  SubSeq(Expand(result[1].data[c]), F + 1, end - start - F)
                      = SubSeq(Expand(buffer.data[c]), start + F + 1, end - F)
            /\ \A j \in 0..(start - 1) : ForwardWindowOf(buffer, j) \notin fwd
            /\ \A j \in end..(buffer.length - 1) : BackwardWindowOf(buffer, j) \notin bwd

\* a buffer cropped at its head and at its tail that keeps a silent window between two
\* loud ones
C21_Witness ==
    /\ Cropped
    /\ trimmed[1].start > 0
    /\ trimmed[1].end < buffer.length
    /\ \E i \in ForwardLoud(buffer, threshold), k \in ForwardLoud(buffer, threshold) :
          \E q \in (i + 1)..(k - 1) :
              /\ q % windowSize(buffer.sampleRate) = 0
              /\ q \notin ForwardLoud(buffer, threshold)
              /\ trimmed[1].start < q /\ q < trimmed[1].end

\* the fade conditions on the new buffer: sample i < F and sample newLen-1-i are the
\* cropped source samples scaled by i/F, the samples between the zones are the source's
FadedCrop ==
    LET F == (buffer.sampleRate * 2) \div 100
        start == trimmed[1].start
        newLen == result[1].length
    IN  \A c \in 1..buffer.numberOfChannels :
            LET x == SubSeq(Expand(buffer.data[c]), start + 1, start + newLen)
                y == Expand(result[1].data[c])
            IN  /\ Len(y) = newLen
                /\ \A i \in 0..(Min(F, newLen) - 1) :
                      /\ y[i + 1] = Scale(x[i + 1], i, F)
                      /\ y[newLen - i] = Scale(x[newLen - i], i, F)
                /\ y[1] = 0
                /\ y[newLen] = 0
                /\ \A k \in (F + 1)..(newLen - F) : y[k] = x[k]

\* C22: in a buffer newly produced by trimAudio, with F = floor(0.02 x sampleRate),
\* sample i < F of each channel is the cropped source sample scaled by i/F, sample
\* newLen-1-i is scaled by i/F, and every sample outside the two fade zones equals the
\* source sample at start + index
C22_Fades == Cropped => FadedCrop

\* C22 as amended: the same for a new buffer at least 2F samples long, whose two fade
\* zones do not overlap
C22_FadesWhenLong ==
    (Cropped /\ result[1].length >= 2 * ((buffer.sampleRate * 2) \div 100)) => FadedCrop

\* a crop at least 2F long whose fade-in zone holds a source sample that the ramp
\* scaled down without silencing it
C22_Witness ==
    /\ Cropped
    /\ result[1].length < buffer.length
    /\ result[1].length >= 2 * ((buffer.sampleRate * 2) \div 100)
    /\ \E i \in 1..((buffer.sampleRate * 2) \div 100 - 1) :
          /\ At(result[1].data[1], i) # 0
          /\ Abs(At(result[1].data[1], i)) < Abs(At(buffer.data[1], trimmed[1].start + i))

-----------------------------------------------------------------------------
(* The silence segmenter's regions: C23 to C25 *)

\* the offsets of the analysis windows
WindowOffsets ==
    {i \in 0..(buffer.length - 1) : i % windowSize(buffer.sampleRate) = 0}

\* the window at offset i is judged voice by the detector of the variant called
Voiced(i) ==
    LET end == Min(i + windowSize(buffer.sampleRate), buffer.length)
    IN  IF fn = "removeSilence"
        THEN SumAbs(analysisData, i, end) > threshold * (end - i)
        ELSE SumSq(analysisData, i, end) > threshold * threshold * (end - i)

\* silence begins at offset i: a window that is not voice right after one that is
SilenceBegins(i) ==
    /\ i \in WindowOffsets
    /\ i >= windowSize(buffer.sampleRate)
    /\ ~ Voiced(i)
    /\ Voiced(i - windowSize(buffer.sampleRate))

\* the release trail added to the end of a closed region
ReleaseTrail == IF fn = "removeSilence" THEN 0 ELSE (buffer.sampleRate * 20) \div 100

\* the regions closed inside the window loop, before the end of the buffer
ClosedRegions == {k \in 1..Len(regionsToKeep) : regionsToKeep[k].end < buffer.length}

\* C23: a region is closed only after a run of consecutive sub-threshold windows longer
\* than minSilenceDuration, and it ends at the window where that silence began (plus the
\* release trail of the variant), not at the window where the limit was reached
C23_ClosedWhereSilenceBegan ==
    SilenceDone =>
        \A k \in ClosedRegions :
            LET b == regionsToKeep[k].end - ReleaseTrail
            IN  /\ SilenceBegins(b)
                /\ \A q \in WindowOffsets :
                      (b <= q /\ (q - b) * 1000 < minSilenceDuration * buffer.sampleRate)
                          => ~ Voiced(q)

\* C23 for src/utils/audioUtils.ts alone
ClosedWhereSilenceBeganUtils == fn = "utils_removeSilence" => C23_ClosedWhereSilenceBegan

\* in the current utilities a closed region ends at the window where the limit was
\* reached: the silence before it is longer than minSilenceDuration less one window
ClosedWhereLimitReached ==
    (SilenceDone /\ fn = "removeSilence") =>
        \A k \in ClosedRegions :
            LET c == regionsToKeep[k].end
                w == windowSize(buffer.sampleRate)
                b == CHOOSE q \in WindowOffsets :
                        /\ SilenceBegins(q) /\ q <= c
                        /\ \A x \in WindowOffsets : (q <= x /\ x <= c) => ~ Voiced(x)
            IN  /\ \E q \in WindowOffsets :
                      /\ SilenceBegins(q) /\ q <= c
                      /\ \A x \in WindowOffsets : (q <= x /\ x <= c) => ~ Voiced(x)
                /\ (c + w - b) * 1000 > minSilenceDuration * buffer.sampleRate
                /\ (c - b) * 1000 <= minSilenceDuration * buffer.sampleRate

\* speech begins at offset i: a window judged voice that is the first of the buffer or
\* follows one that is not
SpeechBegins(i) ==
    /\ i \in WindowOffsets
    /\ Voiced(i)
    /\ i = 0 \/ ~ Voiced(i - windowSize(buffer.sampleRate))

\* the backtracks the two detectors are said to apply: one window, or 250 ms
Backtracks == {windowSize(buffer.sampleRate), (buffer.sampleRate * 25) \div 100}

\* the loop state right after the window at offset i, entered while silent with some
\* silence on the accumulator
AfterWindow(i) ==
    IF fn = "removeSilence"
    THEN removeSilence_window(analysisData, buffer.length, buffer.sampleRate, threshold,
             minSilenceDuration,
             [isSpeaking |-> FALSE, speechStart |-> 0, silenceDuration |-> 1,
              regions |-> << >>], i).silenceDuration
    ELSE utils_removeSilence_window(analysisData, buffer.length, buffer.sampleRate, threshold,
             minSilenceDuration,
             [isSpeaking |-> FALSE, startParams |-> 0, silenceStart |-> 1,
              regions |-> << >>], i).silenceStart

\* C24: every region opens at a backtracked offset before the window where speech
\* began (one window or 250 ms back, not below 0), so it starts strictly before that
\* window unless the window is the first of the buffer, and the window that opens a
\* region resets the silence accumulator
C24_Backtracked ==
    SilenceDone =>
        /\ \A k \in 1..Len(regionsToKeep) :
              \E f \in WindowOffsets, back \in Backtracks :
                  /\ SpeechBegins(f)
                  /\ regionsToKeep[k].start = Max(0, f - back)
                  /\ f > 0 => regionsToKeep[k].start < f
        /\ \A f \in WindowOffsets : SpeechBegins(f) => AfterWindow(f) = 0

\* C24 for src/utils/audioUtils.ts alone
BacktrackedUtils == fn = "utils_removeSilence" => C24_Backtracked

\* in the current utilities every region starts at the window where speech began
OpensAtFirstVoicedWindow ==
    (SilenceDone /\ fn = "removeSilence") =>
        \A k \in 1..Len(regionsToKeep) : SpeechBegins(regionsToKeep[k].start)

\* the regions at least 0.1 s long, in detection order
RECURSIVE LongRegionsFrom(_)
LongRegionsFrom(r) ==
    IF r > Len(regionsToKeep) THEN << >>
    ELSE (IF (regionsToKeep[r].end - regionsToKeep[r].start) * 10 >= buffer.sampleRate
          THEN <<regionsToKeep[r]>> ELSE << >>) \o LongRegionsFrom(r + 1)

LongRegions == LongRegionsFrom(1)

\* C25: every buffer removeSilence cuts from a region is at least 0.1 s long: the
\* regions shorter than that are discarded and every region at least that long is
\* returned, in detection order
C25_MinimumLength ==
    (SilenceDone /\ Len(regionsToKeep) > 0) =>
        /\ Len(result) = Len(LongRegions)
        /\ \A k \in 1..Len(result) :
              /\ result[k].length * 10 >= buffer.sampleRate
              /\ result[k].length = LongRegions[k].end - LongRegions[k].start

\* C25 for the current utilities alone
MinimumLengthCurrent == fn = "removeSilence" => C25_MinimumLength

-----------------------------------------------------------------------------
(* The offline render of masterAudio: C26 *)

\* C26: every masterAudio call renders in an offline context of its own, sized to the
\* input: the mastered buffer has the input's channel count, length and sample rate
\* whatever the options, reverb included, and no two calls share a context
C26_SizedToInput ==
    /\ \A r \in 1..Len(renders) :
          /\ renders[r].context.numberOfChannels = buffer.numberOfChannels
          /\ renders[r].context.length = buffer.length
          /\ renders[r].context.sampleRate = buffer.sampleRate
          /\ renders[r].output.numberOfChannels = buffer.numberOfChannels
          /\ renders[r].output.length = buffer.length
          /\ renders[r].output.sampleRate = buffer.sampleRate
    /\ \A r, q \in 1..Len(renders) :
          renders[r].context.id = renders[q].context.id => r = q

\* a stereo buffer mastered twice with reverb
C26_Witness ==
    /\ Len(renders) = 2
    /\ buffer.numberOfChannels = 2
    /\ LevelOf(options.reverbLevel) > 0
    /\ HasNode(renders[2].graph, "convolver")
    /\ renders[2].output.length = 2 * BlockLen

-----------------------------------------------------------------------------
(* The state of the preview session: C27 and C30 *)

\* C27: the start offset handed to a preview source is always within [0, duration],
\* whatever the sequence of play, pause, seek and parameter changes, a parameter change
\* before the scheduled start time included
C27_OffsetInRange ==
    \A p \in 1..Len(players) :
        /\ 0 <= players[p].offset
        /\ players[p].offset <= Duration

\* the offset never exceeds the duration
OffsetAtMostDuration ==
    \A p \in 1..Len(players) : players[p].offset <= Duration

-----------------------------------------------------------------------------
(* The loop of the fixed-duration segmenter: C28 *)

\* C28: sliceAudioBuffer terminates for every non-empty buffer and every
\* segmentDuration > 0: an iteration of its loop either moves the offset forward or
\* ends the call, also when floor(segmentDuration x sampleRate) is 0
C28_Terminates ==
    (pc = "loop" /\ offset < buffer.length /\ segmentDuration > 0) =>
        \/ SegLen > 0
        \/ /\ fn = "utils_sliceAudioBuffer"
           /\ Min(SegLen, buffer.length - offset) = 0

\* the loop of the current utilities is not left once entered with a segment length of 0
StuckInLoop ==
    [][(pc = "loop" /\ fn = "sliceAudioBuffer" /\ SegLen = 0) => pc' = "loop"]_vars

-----------------------------------------------------------------------------
(* The busy flags *)

\* C29: every processing run eventually clears the busy flag: whenever the cutter's
\* isProcessing is true it is false again later, and whenever MasteringStudio's
\* isProcessing is true it is false again later, whichever way the run ends
C29_BusyFlagCleared ==
    /\ app.isProcessing ~> ~ app.isProcessing
    /\ studio.isProcessing ~> ~ studio.isProcessing

\* a cutter run has ended in the inner catch on a rejected archive (the segments are
\* set, there is no link), a load of the mastering tab has ended on a decode failure
\* (the file is set, there is no buffer), and neither flag is set
C29_Witness ==
    /\ app.error /\ app.segments > 1 /\ ~ app.downloadLink
    /\ app.pending = "none" /\ ~ app.isProcessing
    /\ studio.mounted /\ studio.file /\ ~ studio.audioBuffer
    /\ studio.pending = "none" /\ ~ studio.isProcessing

\* the cutter's flag is set exactly while one of its continuations is pending
BusyWhilePending == app.isProcessing <=> app.pending # "none"

====
